---- MODULE Spec2Model ----
(***************************************************************************)
(* RogueDex: a model of the picoNet reliability layer                      *)
(* (src/picoNet/connection.py, packet.py, serializer.py, socket.py).       *)
(*                                                                         *)
(* Time is counted in milliseconds (time.time() is in seconds: 0.1 s is    *)
(* 100, 5.0 s is 5000).  The smoothed round-trip time is kept as an exact  *)
(* decimal fraction num / 10^exp of a millisecond, so the EWMA             *)
(* rtt*0.9 + m*0.1 is computed without rounding.                           *)
(* A datagram is a sequence of bytes (0..255), a socket address is a name. *)
(***************************************************************************)
EXTENDS Integers, Sequences, FiniteSets, TLC

\* ---------------------------------------------------------------- bounds
\* application sends per connection (caps the outgoing sequence counter)
MaxSeq == 2
\* datagrams a socket buffer holds; a datagram arriving at a full buffer is lost
MaxInbox == 3
\* injected datagrams a socket buffer holds
MaxInject == 1
\* clock advances in a run
MaxTicks == 3
\* lost datagrams in the specifications where loss is finite
MaxLoss == 1
\* fresh sequences the remote sender of SpecDedup produces
MaxStream == 33
\* the sequences 0..MaxReplay-1 are the ones it sends again
MaxReplay == 2
\* clock advances in SpecHS
MaxTicksHS == 6
\* clock advances in SpecSym
MaxTicksSym == 3
\* clock advances in SpecLive
MaxTicksLive == 2

\* ------------------------------------------------------ program constants
PROTOCOL_ID == 1380927317
HEADER_SIZE == 12
HANDSHAKE_CHALLENGE == <<222, 173, 190, 239>>
HANDSHAKE_RESPONSE == <<202, 254, 186, 190>>
HANDSHAKE_TIMEOUT == 5000
HANDSHAKE_RESEND_INTERVAL == 1000
\* Connection.timeout
TIMEOUT == 5000
\* Connection.rtt at construction, 0.1 s
RTT_INITIAL == 100
\* max(0.001, now - sent_time)
RTT_FLOOR == 1
\* max(0.1, rtt * 1.5)
RESEND_FLOOR == 100
\* collections.deque(maxlen=32)
DEDUP_WINDOW == 32
SEQ_MOD == 65536
HALF_WINDOW == 32768
ACK_BITS == 16

TAG_NULL == 0
TAG_BOOL_FALSE == 1
TAG_BOOL_TRUE == 2
TAG_INT32 == 3
TAG_FLOAT64 == 4
TAG_STRING_UTF8 == 5
TAG_LIST == 6
TAG_DICT == 7
TAG_KNOWN_KEY == 8
TAG_UNKNOWN_KEY == 9
KNOWN_KEYS == [command |-> 1, player_id |-> 2, position |-> 3, velocity |-> 4,
               is_running |-> 5, tick |-> 6, x |-> 7, y |-> 8, hex |-> 9,
               color |-> 10]

Peers == {"A", "B"}
\* hosts that are no Connection of the model: their datagrams are injected
Hosts == {"X", "Y"}

\* F applied to the value of x: x is evaluated once, as a Python local is
Bind(x, F(_)) == CHOOSE y \in {F(v) : v \in {x}} : TRUE

\* ------------------------------------------------------------ byte codecs
Pow(b, k) == IF k = 0 THEN 1 ELSE LET RECURSIVE P(_)
                                      P(n) == IF n = 0 THEN 1 ELSE b * P(n - 1)
                                  IN P(k)

\* struct.pack little-endian unsigned of k bytes
LE(n, k) == [i \in 1..k |-> (n \div Pow(256, i - 1)) % 256]

\* struct.pack big-endian unsigned of k bytes
BE(n, k) == [i \in 1..k |-> (n \div Pow(256, k - i)) % 256]

\* struct.unpack big-endian unsigned
FromBE(b) == LET RECURSIVE F(_)
                 F(i) == IF i = 0 THEN 0 ELSE F(i - 1) * 256 + b[i]
             IN F(Len(b))

Header(pid, seq, ack, bits) ==
    [protocol_id |-> pid, sequence |-> seq, ack |-> ack, ack_bitfield |-> bits]

pack_packet(header, payload) ==
    BE(header.protocol_id, 4) \o BE(header.sequence, 4) \o BE(header.ack, 2)
        \o BE(header.ack_bitfield, 2) \o payload

\* raised = TRUE stands for the ValueError of a buffer shorter than the header
unpack_packet(data) ==
    IF Len(data) < HEADER_SIZE
    THEN [raised |-> TRUE, header |-> Header(0, 0, 0, 0), payload |-> <<>>]
    ELSE [raised |-> FALSE,
          header |-> Header(FromBE(SubSeq(data, 1, 4)), FromBE(SubSeq(data, 5, 8)),
                            FromBE(SubSeq(data, 9, 10)), FromBE(SubSeq(data, 11, 12))),
          payload |-> SubSeq(data, HEADER_SIZE + 1, Len(data))]

\* ------------------------------------------------------------- serializer
\* A value is a record tagged with its Python type; a dictionary is the
\* sequence of its <<key, value>> items in insertion order, keys being
\* strings.
None == [type |-> "NoneType"]
True == [type |-> "bool", value |-> TRUE]
False == [type |-> "bool", value |-> FALSE]
PyInt(n) == [type |-> "int", value |-> n]
PyFloat(f) == [type |-> "float", value |-> f]
PyStr(s) == [type |-> "str", value |-> s]
PyList(l) == [type |-> "list", value |-> l]
PyDict(d) == [type |-> "dict", value |-> d]

\* str.encode('utf-8') on the strings this model draws
Utf8 == ("" :> <<>>) @@ ("a" :> <<97>>) @@ ("x" :> <<120>>)
        @@ ("pen" :> <<112, 101, 110>>)

encode(s) == Utf8[s]

\* bytes.decode('utf-8'); raised = TRUE also for the bytes of a string the
\* model does not draw
decode(b) ==
    IF \E s \in DOMAIN Utf8 : Utf8[s] = b
    THEN [raised |-> FALSE, value |-> CHOOSE s \in DOMAIN Utf8 : Utf8[s] = b]
    ELSE [raised |-> TRUE, value |-> ""]

\* struct.pack('>d', f) on the floats this model draws
Float64 == ("0.0" :> <<0, 0, 0, 0, 0, 0, 0, 0>>)
           @@ ("1.5" :> <<63, 248, 0, 0, 0, 0, 0, 0>>)
           @@ ("-2.0" :> <<192, 0, 0, 0, 0, 0, 0, 0>>)

\* struct.unpack('>d', b); a bit pattern outside the table stands for itself
unpack_d(b) ==
    IF \E f \in DOMAIN Float64 : Float64[f] = b
    THEN PyFloat(CHOOSE f \in DOMAIN Float64 : Float64[f] = b)
    ELSE PyFloat(b)

\* struct.pack('>i', n): two's complement, big-endian
pack_i(n) ==
    IF n >= 0 THEN BE(n, 4)
    ELSE LET b == BE((n + 2147483647) + 1, 4)
         IN <<b[1] + 128, b[2], b[3], b[4]>>

\* struct.unpack('>i', b)
unpack_i(b) ==
    IF b[1] < 128 THEN FromBE(b)
    ELSE (FromBE(<<b[1] - 128, b[2], b[3], b[4]>>) - 2147483647) - 1

\* the key of an item: a codebook id, or the length-prefixed string
serialize_key(key) ==
    IF key \in DOMAIN KNOWN_KEYS
    THEN <<TAG_KNOWN_KEY, KNOWN_KEYS[key]>>
    ELSE <<TAG_UNKNOWN_KEY>> \o BE(Len(encode(key)), 2) \o encode(key)

RECURSIVE serialize(_), serialize_value(_), serialize_each(_, _)

serialize(d) ==
    LET RECURSIVE Items(_)
        Items(i) == IF i = 0 THEN <<>>
                    ELSE Items(i - 1) \o serialize_key(d[i][1])
                         \o serialize_value(d[i][2])
    IN <<TAG_DICT>> \o BE(Len(d), 2) \o Items(Len(d))

\* for item in value: _serialize_value(stream, item)
serialize_each(l, i) ==
    IF i = 0 THEN <<>> ELSE serialize_each(l, i - 1) \o serialize_value(l[i])

\* _serialize_value(stream, value): the bytes written
serialize_value(v) ==
    CASE v.type = "NoneType" -> <<TAG_NULL>>
      [] v.type = "bool" -> <<IF v.value THEN TAG_BOOL_TRUE ELSE TAG_BOOL_FALSE>>
      [] v.type = "int" -> <<TAG_INT32>> \o pack_i(v.value)
      [] v.type = "float" -> <<TAG_FLOAT64>> \o Float64[v.value]
      [] v.type = "str" ->
            <<TAG_STRING_UTF8>> \o BE(Len(encode(v.value)), 2) \o encode(v.value)
      [] v.type = "list" ->
            <<TAG_LIST>> \o BE(Len(v.value), 2) \o serialize_each(v.value, Len(v.value))
      [] v.type = "dict" -> serialize(v.value)

\* result_dict[key] = value
DictSet(d, k, v) ==
    IF \E i \in DOMAIN d : d[i][1] = k
    THEN [i \in DOMAIN d |-> IF d[i][1] = k THEN <<k, v>> ELSE d[i]]
    ELSE Append(d, <<k, v>>)

KeyOfId(id) == CHOOSE k \in DOMAIN KNOWN_KEYS : KNOWN_KEYS[k] = id

\* stream.read(n) at position pos: fewer bytes when the stream ends
read(data, pos, n) ==
    SubSeq(data, pos, IF pos + n - 1 > Len(data) THEN Len(data) ELSE pos + n - 1)

\* a nested dictionary is read from all that is left of the stream
rest_of_stream(data, pos) == SubSeq(data, pos, Len(data))

RECURSIVE deserialize(_), deserialize_items(_, _, _, _),
          deserialize_value(_, _), deserialize_list(_, _, _, _)

\* raised = TRUE stands for the ValueError of a malformed stream; the caller
\* passes a non-empty buffer
deserialize(data) ==
    IF data[1] # TAG_DICT THEN [raised |-> TRUE, value |-> <<>>]
    ELSE IF Len(read(data, 2, 2)) # 2 THEN [raised |-> TRUE, value |-> <<>>]
    ELSE deserialize_items(data, 4, FromBE(read(data, 2, 2)), <<>>)

\* for _ in range(num_items): the loop of deserialize from position pos
deserialize_items(data, pos, n, acc) ==
    LET fail == [raised |-> TRUE, value |-> <<>>]
        Value(key, next) ==
            LET v == deserialize_value(data, next)
            IN IF v.raised THEN fail
               ELSE deserialize_items(data, v.pos, n - 1, DictSet(acc, key, v.value))
    IN IF n = 0 THEN [raised |-> FALSE, value |-> acc]
       ELSE IF pos > Len(data) THEN fail
       ELSE IF data[pos] = TAG_KNOWN_KEY
       THEN IF pos + 1 > Len(data) THEN fail
            ELSE IF ~(\E k \in DOMAIN KNOWN_KEYS : KNOWN_KEYS[k] = data[pos + 1]) THEN fail
            ELSE Value(KeyOfId(data[pos + 1]), pos + 2)
       ELSE IF data[pos] = TAG_UNKNOWN_KEY
       THEN IF Len(read(data, pos + 1, 2)) # 2 THEN fail
            ELSE LET b == read(data, pos + 3, FromBE(read(data, pos + 1, 2)))
                 IN IF decode(b).raised THEN fail
                    ELSE Value(decode(b).value, pos + 3 + Len(b))
       ELSE fail

\* [_deserialize_value(stream) for _ in range(num_items)]
deserialize_list(data, pos, n, acc) ==
    IF n = 0 THEN [raised |-> FALSE, value |-> PyList(acc), pos |-> pos]
    ELSE LET v == deserialize_value(data, pos)
         IN IF v.raised THEN v
            ELSE deserialize_list(data, v.pos, n - 1, Append(acc, v.value))

\* _deserialize_value(stream) with the stream at position pos; pos in the
\* result is the position the stream is left at
deserialize_value(data, pos) ==
    LET fail == [raised |-> TRUE, value |-> None, pos |-> pos]
        Ok(v, next) == [raised |-> FALSE, value |-> v, pos |-> next]
    IN IF pos > Len(data) THEN fail
       ELSE CASE data[pos] = TAG_NULL -> Ok(None, pos + 1)
              [] data[pos] = TAG_BOOL_FALSE -> Ok(False, pos + 1)
              [] data[pos] = TAG_BOOL_TRUE -> Ok(True, pos + 1)
              [] data[pos] = TAG_INT32 ->
                    IF Len(read(data, pos + 1, 4)) # 4 THEN fail
                    ELSE Ok(PyInt(unpack_i(read(data, pos + 1, 4))), pos + 5)
              [] data[pos] = TAG_FLOAT64 ->
                    IF Len(read(data, pos + 1, 8)) # 8 THEN fail
                    ELSE Ok(unpack_d(read(data, pos + 1, 8)), pos + 9)
              [] data[pos] = TAG_STRING_UTF8 ->
                    IF Len(read(data, pos + 1, 2)) # 2 THEN fail
                    ELSE LET b == read(data, pos + 3, FromBE(read(data, pos + 1, 2)))
                         IN IF decode(b).raised THEN fail
                            ELSE Ok(PyStr(decode(b).value), pos + 3 + Len(b))
              [] data[pos] = TAG_LIST ->
                    IF Len(read(data, pos + 1, 2)) # 2 THEN fail
                    ELSE deserialize_list(data, pos + 3,
                                          FromBE(read(data, pos + 1, 2)), <<>>)
              [] data[pos] = TAG_DICT ->
                    LET r == deserialize(rest_of_stream(data, pos))
                    IN IF r.raised THEN fail
                       ELSE Ok(PyDict(r.value), Len(data) + 1)
              [] OTHER -> fail

\* ------------------------------------------------------------- connection
\* is_sequence_greater(s1, s2)
\* a comparison that ignores wrapping
plainly_greater(s1, s2) == s1 > s2

\* a comparison in which numbers half the range apart are not ordered
greater_below_half(s1, s2) ==
    \/ (s1 > s2 /\ s1 - s2 < HALF_WINDOW)
    \/ (s1 < s2 /\ s2 - s1 > HALF_WINDOW)

is_sequence_greater(s1, s2) ==
    \/ (s1 > s2 /\ s1 - s2 <= HALF_WINDOW)
    \/ (s1 < s2 /\ s2 - s1 > HALF_WINDOW)

\* Connection.__init__(host, port): the state after construction
Connection(host) ==
    [remote_address |-> host,
     state |-> "DISCONNECTED",
     last_receive_time |-> 0,
     rtt |-> [num |-> RTT_INITIAL, exp |-> 0],
     handshake_start_time |-> 0,
     last_handshake_send_time |-> 0,
     sequence_number |-> 0,
     remote_sequence_number |-> -1,
     ack_bitfield |-> 0,
     sent_packets |-> <<>>,
     received_sequences |-> <<>>,
     received_payloads |-> <<>>]

\* one PicoSocket.send(address, data) call
Dgram(dst, data) == [dst |-> dst, data |-> data]

\* the keys of the _sent_packets dict (kept here in insertion order, as a
\* sequence of [seq, time, data] entries)
SentSeqs(c) == {c.sent_packets[i].seq : i \in DOMAIN c.sent_packets}

SelectSeq2(s, Keep(_)) ==
    LET RECURSIVE F(_)
        F(i) == IF i = 0 THEN <<>>
                ELSE IF Keep(s[i]) THEN Append(F(i - 1), s[i]) ELSE F(i - 1)
    IN F(Len(s))

\* self._sent_packets[seq] = (time, data): an existing key keeps its place
SentPut(sp, seq, t, data) ==
    IF \E i \in DOMAIN sp : sp[i].seq = seq
    THEN [i \in DOMAIN sp |->
            IF sp[i].seq = seq THEN [seq |-> seq, time |-> t, data |-> data] ELSE sp[i]]
    ELSE Append(sp, [seq |-> seq, time |-> t, data |-> data])

\* a deque one element short
DequeAppendShort(q, x) ==
    IF Len(q) >= DEDUP_WINDOW - 1 THEN Append(Tail(q), x) ELSE Append(q, x)

\* deque(maxlen=32).append
DequeAppend(q, x) == IF Len(q) >= DEDUP_WINDOW THEN Append(Tail(q), x) ELSE Append(q, x)

InSeq(x, q) == \E i \in DOMAIN q : q[i] = x

\* _send_handshake_challenge
send_handshake_challenge(c, now) ==
    [c |-> [c EXCEPT !.last_handshake_send_time = now],
     out |-> <<Dgram(c.remote_address, HANDSHAKE_CHALLENGE)>>]

\* connect()
connect(c, now) ==
    IF c.state # "DISCONNECTED" THEN [c |-> c, out |-> <<>>]
    ELSE send_handshake_challenge(
             [c EXCEPT !.state = "CONNECTING", !.handshake_start_time = now], now)

\* send(payload) past its state check: build, transmit, record, count
send_packet(c, payload, now) ==
    LET ack_to_send == IF c.remote_sequence_number # -1
                       THEN c.remote_sequence_number ELSE 0
        packed_data == pack_packet(Header(PROTOCOL_ID, c.sequence_number,
                                          ack_to_send, c.ack_bitfield),
                                   serialize(payload))
    IN [c |-> [c EXCEPT !.sent_packets =
                            SentPut(@, c.sequence_number, now, packed_data),
                        !.sequence_number = (@ + 1) % SEQ_MOD],
        out |-> <<Dgram(c.remote_address, packed_data)>>]

\* a send() that lacks the state check
send_in_any_state(c, payload, now) == send_packet(c, payload, now)

\* send(payload)
send(c, payload, now) ==
    IF c.state # "CONNECTED" THEN [c |-> c, out |-> <<>>]
    ELSE send_packet(c, payload, now)

\* send_ack_only()
send_ack_only(c) ==
    IF c.state # "CONNECTED" THEN [c |-> c, out |-> <<>>]
    ELSE IF c.remote_sequence_number = -1 THEN [c |-> c, out |-> <<>>]
    ELSE [c |-> c,
          out |-> <<Dgram(c.remote_address,
                          pack_packet(Header(PROTOCOL_ID, 0, c.remote_sequence_number,
                                             c.ack_bitfield), <<>>))>>]

\* a receive() that leaves the queue as it is
receive_keeping(c) == [c |-> c, ret |-> c.received_payloads]

\* receive(): the payloads handed to the application, and the cleared queue
receive(c) == [c |-> [c EXCEPT !.received_payloads = <<>>],
               ret |-> c.received_payloads]

\* handle_ack(seq) inside _process_acks
handle_ack(c, seq, now) ==
    IF seq \notin SentSeqs(c) THEN c
    ELSE LET e == CHOOSE x \in {c.sent_packets[i] : i \in DOMAIN c.sent_packets} :
                      x.seq = seq
             age == now - e.time
             measured_rtt == IF age > RTT_FLOOR THEN age ELSE RTT_FLOOR
             Other(x) == x.seq # seq
         IN [c EXCEPT !.rtt = [num |-> 9 * c.rtt.num + measured_rtt * Pow(10, c.rtt.exp),
                               exp |-> c.rtt.exp + 1],
                      !.sent_packets = SelectSeq2(@, Other)]

\* a _process_acks that removes the direct ack alone
process_acks_direct(c, ack, bitfield, now) == handle_ack(c, ack, now)

\* _process_acks(ack, bitfield)
process_acks(c, ack, bitfield, now) ==
    LET RECURSIVE Bits(_, _)
        Bits(cc, i) ==
            IF i = ACK_BITS THEN cc
            ELSE IF (bitfield \div Pow(2, i)) % 2 = 1
                 THEN LET Next_(c2) == Bits(c2, i + 1)
                      IN Bind(handle_ack(cc, (ack - 1 - i) % SEQ_MOD, now), Next_)
                 ELSE Bits(cc, i + 1)
        First(c1) == Bits(c1, 0)
    IN Bind(handle_ack(c, ack, now), First)

\* bits | (1 << k)
SetBit(bits, k) == IF (bits \div Pow(2, k)) % 2 = 1 THEN bits ELSE bits + Pow(2, k)

\* the incoming sequence/bitfield update at the end of _process_received_packet;
\* raised = TRUE stands for the ValueError of a negative shift count
update_remote_sequence(c, seq) ==
    IF c.remote_sequence_number = -1 \/ is_sequence_greater(seq, c.remote_sequence_number)
    THEN LET diff == (seq - c.remote_sequence_number) % SEQ_MOD
             bf == IF c.remote_sequence_number = -1 THEN c.ack_bitfield
                   ELSE IF diff <= ACK_BITS
                        THEN ((c.ack_bitfield * Pow(2, diff)) + Pow(2, diff - 1)) % SEQ_MOD
                        ELSE 0
         IN [c |-> [c EXCEPT !.ack_bitfield = bf, !.remote_sequence_number = seq],
             raised |-> FALSE]
    ELSE LET diff == (c.remote_sequence_number - seq) % SEQ_MOD
         IN IF diff > ACK_BITS THEN [c |-> c, raised |-> FALSE]
            ELSE IF diff = 0 THEN [c |-> c, raised |-> TRUE]
            ELSE [c |-> [c EXCEPT !.ack_bitfield = SetBit(@, diff - 1) % SEQ_MOD],
                  raised |-> FALSE]

\* _process_received_packet(packet); what was assigned before an exception stays
process_received_packet(c, packet, now) ==
    LET seq == packet.header.sequence
        Sequenced(c3) == update_remote_sequence(c3, seq).c
        Enqueue(c2) ==
            IF packet.payload = <<>> THEN Sequenced(c2)
            ELSE LET Deserialized(d) ==
                         IF d.raised THEN c2
                         ELSE Bind([c2 EXCEPT !.received_payloads = Append(@, d.value)],
                                   Sequenced)
                 IN Bind(deserialize(packet.payload), Deserialized)
        Acked(c1) ==
            IF seq = 0 /\ Len(packet.payload) = 0 THEN c1
            ELSE IF InSeq(seq, c1.received_sequences) THEN c1
            ELSE Bind([c1 EXCEPT !.received_sequences = DequeAppend(@, seq)], Enqueue)
    IN Bind(process_acks(c, packet.header.ack, packet.header.ack_bitfield, now), Acked)

\* an adoption that keeps the outgoing sequence counter
adopt_keeping_sequence(c, address, now) ==
    [c EXCEPT !.remote_address = address, !.state = "CONNECTED",
              !.last_receive_time = now, !.remote_sequence_number = -1]

\* the assignments of a DISCONNECTED connection that reads a challenge
adopt(c, address, now) ==
    [c EXCEPT !.remote_address = address,
              !.state = "CONNECTED",
              !.last_receive_time = now,
              !.remote_sequence_number = -1,
              !.sequence_number = 0]

\* a test that takes a response from any address
accepts_response_from_anyone(c, address) == c.state = "CONNECTING"

\* the test a handshake response has to pass
accepts_response(c, address) ==
    c.state = "CONNECTING" /\ address = c.remote_address

\* an answer given only by a connection that adopts the challenger
challenge_answer_when_adopting(c, address) ==
    IF c.state = "DISCONNECTED" THEN <<Dgram(address, HANDSHAKE_RESPONSE)>> ELSE <<>>

\* the answer to a challenge, in whatever state it is read
challenge_answer(c, address) == <<Dgram(address, HANDSHAKE_RESPONSE)>>

\* a test that lets application packets of any sender through
rejects_unconnected_only(c, address) == c.state # "CONNECTED"

\* the test that keeps application packets out
rejects(c, address) == c.state # "CONNECTED" \/ address # c.remote_address

\* a test that lets a connection waiting for its response adopt a challenger
adopts_unless_connected(c) == c.state # "CONNECTED"

\* the test of the adoption branch
adopts(c) == c.state = "DISCONNECTED"

\* one iteration of the loop of _receive_packets, on the datagram the socket
\* returned
receive_packet(c, data, address, now) ==
    IF data = HANDSHAKE_CHALLENGE
    THEN [c |-> IF adopts(c) THEN adopt(c, address, now) ELSE c,
          out |-> challenge_answer(c, address)]
    ELSE IF data = HANDSHAKE_RESPONSE
    THEN [c |-> IF accepts_response(c, address)
                THEN [c EXCEPT !.state = "CONNECTED", !.last_receive_time = now]
                ELSE c,
          out |-> <<>>]
    ELSE IF rejects(c, address)
    THEN [c |-> c, out |-> <<>>]
    ELSE LET Unpacked(packet) ==
                 IF packet.raised THEN [c |-> c, out |-> <<>>]
                 ELSE IF packet.header.protocol_id # PROTOCOL_ID THEN [c |-> c, out |-> <<>>]
                 ELSE [c |-> process_received_packet(
                                 [c EXCEPT !.last_receive_time = now], packet, now),
                       out |-> <<>>]
         IN Bind(unpack_packet(data), Unpacked)

\* max(0.1, self.rtt * 1.5) < now - sent_time
IsLost(c, e, now) ==
    /\ now - e.time > RESEND_FLOOR
    /\ 2 * (now - e.time) * Pow(10, c.rtt.exp) > 3 * c.rtt.num

\* a resend that leaves the send-time as it was
resend_without_refresh(c, now) ==
    LET Lost(e) == IsLost(c, e, now)
        lost == SelectSeq2(c.sent_packets, Lost)
    IN [c |-> c,
        out |-> [i \in DOMAIN lost |-> Dgram(c.remote_address, lost[i].data)]]

\* _resend_lost_packets()
resend_lost_packets(c, now) ==
    LET Lost(e) == IsLost(c, e, now)
        lost == SelectSeq2(c.sent_packets, Lost)
    IN [c |-> [c EXCEPT !.sent_packets =
                   [i \in DOMAIN @ |-> IF IsLost(c, @[i], now)
                                       THEN [@[i] EXCEPT !.time = now] ELSE @[i]]],
        out |-> [i \in DOMAIN lost |-> Dgram(c.remote_address, lost[i].data)]]

\* an idle test that measures from the start of the handshake
idle_since_handshake(c, now) ==
    c.state = "CONNECTED" /\ now - c.handshake_start_time > TIMEOUT

\* the idle test of update(dt)
idle_timed_out(c, now) ==
    c.state = "CONNECTED" /\ now - c.last_receive_time > TIMEOUT

\* a handshake timeout measured from the last challenge sent
handshake_timed_out_since_send(c, now) ==
    c.state = "CONNECTING" /\ now - c.last_handshake_send_time > HANDSHAKE_TIMEOUT

\* the handshake timeout test of update(dt)
handshake_timed_out(c, now) ==
    c.state = "CONNECTING" /\ now - c.handshake_start_time > HANDSHAKE_TIMEOUT

\* update(dt) up to the call of _receive_packets; returned = TRUE when the
\* method returns at a timeout
update_timers(c, now) ==
    IF handshake_timed_out(c, now)
    THEN [c |-> [c EXCEPT !.state = "DISCONNECTED"], out |-> <<>>, returned |-> TRUE]
    ELSE IF c.state = "CONNECTING"
            /\ now - c.last_handshake_send_time > HANDSHAKE_RESEND_INTERVAL
    THEN [c |-> send_handshake_challenge(c, now).c,
          out |-> send_handshake_challenge(c, now).out, returned |-> FALSE]
    ELSE IF idle_timed_out(c, now)
    THEN [c |-> [c EXCEPT !.state = "DISCONNECTED"], out |-> <<>>, returned |-> TRUE]
    ELSE [c |-> c, out |-> <<>>, returned |-> FALSE]

\* update(dt) after _receive_packets
update_resend(c, now) ==
    IF c.state = "CONNECTED" THEN resend_lost_packets(c, now)
    ELSE [c |-> c, out |-> <<>>]

\* ------------------------------------------------------------------ state
VARIABLES
    conn,      \* conn[p]: the fields of Connection p
    inbox,     \* inbox[p]: the datagrams waiting on p's socket, [data, address]
    pc,        \* pc[p]: "idle", or "recv" inside update()'s _receive_packets loop
    clock,     \* time.time(), in ms
    ticks,     \* how often the clock has advanced
    out,       \* the PicoSocket.send calls of the last step, in order
    ev,        \* the last step: its operation, its connection and its input
    enqueued,  \* enqueued[p]: every [seq, value] appended to _received_payloads
               \* (kept in the specifications about delivery)
    lost,      \* datagrams the network has dropped so far
    stream,    \* the next fresh sequence of the remote sender (SpecDedup)
    handed,    \* handed[p]: the payloads receive() has returned so far, in order
               \* (kept in the specification about receive order)
    got,       \* got[p]: the sequences of the packets p has processed from the
               \* address that is its remote now (kept where enqueued is kept)
    battle,    \* battle[b]: Battle b, its BattleState, EventQueue and ruleset data
    history,   \* the calls of submit_actions and process_turn made so far by
               \* the battle that is ahead
    vm         \* the script at hand: its text, tokens, program, function and
               \* the machine running it; <<>> where no script is involved

vars == <<conn, inbox, pc, clock, ticks, out, ev, enqueued, lost, stream,
          handed, got, battle, history, vm>>

NoEv == [op |-> "none", p |-> "", data |-> <<>>, addr |-> "", st |-> "", acked |-> {}]

\* the record of a step of connection p that leaves it as c: the state it was
\* called in and the sequences it removed from the unacked table
Ev(op, p, data, addr, c) ==
    [op |-> op, p |-> p, data |-> data, addr |-> addr, st |-> conn[p].state,
     acked |-> SentSeqs(conn[p]) \ SentSeqs(c)]

\* sendto on a UDP socket: the datagrams outs of sender, those with an index in
\* drop lost on the way, appended to the receivers' socket buffers
Transmit(inb, sender, outs, drop) ==
    LET RECURSIVE T(_)
        T(i) == IF i = 0 THEN inb
                ELSE LET b == T(i - 1)
                         d == outs[i].dst
                     IN IF i \in drop \/ d \notin Peers \/ Len(b[d]) >= MaxInbox THEN b
                        ELSE [b EXCEPT ![d] = Append(@, [data |-> outs[i].data,
                                                         address |-> sender])]
    IN T(Len(outs))

\* the network's part of a step that sends outs: at most maxloss datagrams are
\* ever dropped
Network(inb, sender, outs, maxloss) ==
    \E drop \in SUBSET (DOMAIN outs) :
        /\ lost + Cardinality(drop) <= maxloss
        /\ lost' = lost + Cardinality(drop)
        /\ inbox' = Transmit(inb, sender, outs, drop)

InitWith(remoteA, remoteB) ==
    /\ conn = [p \in Peers |-> Connection(IF p = "A" THEN remoteA ELSE remoteB)]
    /\ inbox = [p \in Peers |-> <<>>]
    /\ pc = [p \in Peers |-> "idle"]
    /\ clock = 0
    /\ ticks = 0
    /\ out = <<>>
    /\ ev = NoEv
    /\ enqueued = [p \in Peers |-> <<>>]
    /\ lost = 0
    /\ stream = 0
    /\ handed = [p \in Peers |-> <<>>]
    /\ got = [p \in Peers |-> {}]
    /\ vm = <<>>
    /\ battle = <<>>
    /\ history = <<>>

\* --------------------------------------------------------------- actions
\* the application of p calls connect()
Connect(p, maxloss) ==
    /\ pc[p] = "idle"
    /\ LET r == connect(conn[p], clock)
       IN /\ conn' = [conn EXCEPT ![p] = r.c]
          /\ out' = r.out
          /\ ev' = Ev("connect", p, <<>>, "", r.c)
          /\ Network(inbox, p, r.out, maxloss)
    /\ UNCHANGED <<pc, clock, ticks, enqueued, stream, handed, got, battle, history, vm>>

\* the application of p calls send(v)
Send(p, v, maxloss) ==
    /\ pc[p] = "idle"
    /\ conn[p].sequence_number < MaxSeq
    /\ LET r == send(conn[p], v, clock)
       IN /\ conn' = [conn EXCEPT ![p] = r.c]
          /\ out' = r.out
          /\ ev' = Ev("send", p, serialize(v), "", r.c)
          /\ Network(inbox, p, r.out, maxloss)
    /\ UNCHANGED <<pc, clock, ticks, enqueued, stream, handed, got, battle, history, vm>>

\* the application of p calls send_ack_only()
SendAckOnly(p, maxloss) ==
    /\ pc[p] = "idle"
    /\ LET r == send_ack_only(conn[p])
       IN /\ conn' = [conn EXCEPT ![p] = r.c]
          /\ out' = r.out
          /\ ev' = Ev("send_ack_only", p, <<>>, "", r.c)
          /\ Network(inbox, p, r.out, maxloss)
    /\ UNCHANGED <<pc, clock, ticks, enqueued, stream, handed, got, battle, history, vm>>

\* the application of p calls receive(); with log, what it returns is recorded
ReceiveCall(p, log) ==
    /\ pc[p] = "idle"
    /\ conn[p].received_payloads # <<>>
    /\ conn' = [conn EXCEPT ![p] = receive(conn[p]).c]
    /\ out' = <<>>
    /\ ev' = Ev("receive", p, <<>>, "", receive(conn[p]).c)
    /\ handed' = IF log THEN [handed EXCEPT ![p] = @ \o receive(conn[p]).ret]
                  ELSE handed
    /\ UNCHANGED <<inbox, pc, clock, ticks, enqueued, lost, stream, got, battle, history, vm>>

\* the application of p calls receive()
Receive(p) == ReceiveCall(p, FALSE)

\* update(dt) is called: the timers, up to the call of _receive_packets
UpdateBegin(p, maxloss) ==
    /\ pc[p] = "idle"
    /\ \E r \in {update_timers(conn[p], clock)} :
          /\ conn' = [conn EXCEPT ![p] = r.c]
          /\ out' = r.out
          /\ pc' = [pc EXCEPT ![p] = IF r.returned THEN "idle" ELSE "recv"]
          /\ ev' = Ev("update", p, <<>>, "", r.c)
          /\ Network(inbox, p, r.out, maxloss)
    /\ UNCHANGED <<clock, ticks, enqueued, stream, handed, got, battle, history, vm>>

\* one iteration of the loop of _receive_packets: the socket returns a datagram
RecvStep(p, maxloss, log) ==
    /\ pc[p] = "recv"
    /\ inbox[p] # <<>>
    /\ \E r \in {receive_packet(conn[p], Head(inbox[p]).data,
                                  Head(inbox[p]).address, clock)} :
       LET m == Head(inbox[p])
           n == Len(r.c.received_payloads)
       IN /\ conn' = [conn EXCEPT ![p] = r.c]
          /\ out' = r.out
          /\ ev' = Ev("recv", p, m.data, m.address, r.c)
          /\ enqueued' = IF log /\ n > Len(conn[p].received_payloads)
                         THEN [enqueued EXCEPT ![p] =
                                  Append(@, [seq |-> unpack_packet(m.data).header.sequence,
                                             value |-> r.c.received_payloads[n]])]
                         ELSE enqueued
          /\ got' = IF ~log THEN got
                    ELSE IF r.c.remote_address # conn[p].remote_address
                    THEN [got EXCEPT ![p] = {}]
                    ELSE IF r.c.received_sequences # conn[p].received_sequences
                    THEN [got EXCEPT ![p] = @ \cup {unpack_packet(m.data).header.sequence}]
                    ELSE got
          /\ Network([inbox EXCEPT ![p] = Tail(@)], p, r.out, maxloss)
    /\ UNCHANGED <<pc, clock, ticks, stream, handed, battle, history, vm>>

\* the socket returns None: the loop ends, update() resends and returns
UpdateEnd(p, maxloss) ==
    /\ pc[p] = "recv"
    /\ inbox[p] = <<>>
    /\ \E r \in {update_resend(conn[p], clock)} :
          /\ conn' = [conn EXCEPT ![p] = r.c]
          /\ out' = r.out
          /\ ev' = Ev("resend", p, <<>>, "", r.c)
          /\ Network(inbox, p, r.out, maxloss)
    /\ pc' = [pc EXCEPT ![p] = "idle"]
    /\ UNCHANGED <<clock, ticks, enqueued, stream, handed, got, battle, history, vm>>

\* update(dt) of p takes its next step
Update(p, maxloss, log) ==
    \/ UpdateBegin(p, maxloss)
    \/ RecvStep(p, maxloss, log)
    \/ UpdateEnd(p, maxloss)

\* time passes
Elapse(deltas, maxticks) ==
    /\ ticks < maxticks
    /\ ticks' = ticks + 1
    /\ \E d \in deltas : clock' = clock + d
    /\ out' = <<>>
    /\ ev' = NoEv
    /\ UNCHANGED <<conn, inbox, pc, enqueued, lost, stream, handed, got, battle, history, vm>>

\* time passes between calls
Tick(deltas, maxticks) ==
    /\ \A p \in Peers : pc[p] = "idle"
    /\ Elapse(deltas, maxticks)

\* time passes between calls, every datagram that has arrived having been read
TickPolled(deltas, maxticks) ==
    /\ \A p \in Peers : inbox[p] = <<>>
    /\ Tick(deltas, maxticks)

\* time passes, in or between calls, every datagram that has arrived having
\* been read
ElapsePolled(deltas, maxticks) ==
    /\ \A p \in Peers : inbox[p] = <<>>
    /\ Elapse(deltas, maxticks)

\* a datagram from address arrives at p's socket
Inject(p, data, address) ==
    /\ Len(inbox[p]) < MaxInject
    /\ inbox' = [inbox EXCEPT ![p] = Append(@, [data |-> data, address |-> address])]
    /\ out' = <<>>
    /\ ev' = NoEv
    /\ UNCHANGED <<conn, pc, clock, ticks, enqueued, lost, stream, handed, got, battle, history, vm>>

\* ---------------------------------------------------------- specifications
X1 == << <<"x", None>> >>

\* One connection, A, configured for host X, driven by its application and
\* by the network, with the clock advancing between calls.  The network
\* delivers X's handshake response, a challenge from another host, and an
\* application packet of X that acknowledges sequence 0.
TimedDatagrams ==
    {<<HANDSHAKE_RESPONSE, "X">>, <<HANDSHAKE_CHALLENGE, "Y">>,
     <<pack_packet(Header(PROTOCOL_ID, 0, 0, 0), serialize(X1)), "X">>}

Deltas == {200, 5100}

Init == InitWith("X", "X")

Next ==
    \/ Connect("A", 0)
    \/ Send("A", X1, 0)
    \/ SendAckOnly("A", 0)
    \/ Receive("A")
    \/ UpdateBegin("A", 0)
    \/ RecvStep("A", 0, FALSE)
    \/ UpdateEnd("A", 0)
    \/ Tick(Deltas, MaxTicks)
    \/ \E m \in TimedDatagrams : Inject("A", m[1], m[2])

Spec == Init /\ [][Next]_vars

\* The same connection with the clock at rest, reading whatever the network
\* may hand it: the handshake literals, a buffer shorter than a header, a
\* foreign protocol id and application packets, from X; some of them from Y.
AppPackets ==
    {pack_packet(Header(PROTOCOL_ID, h[1], h[2][1], h[2][2]), h[3]) :
        h \in {0, 1} \X {<<0, 0>>, <<1, 0>>, <<1, 1>>, <<0, 1>>}
              \X {<<>>, <<TAG_NULL>>, serialize(X1)}}

Datagrams ==
    ({HANDSHAKE_CHALLENGE, HANDSHAKE_RESPONSE, <<1, 2, 3>>,
      pack_packet(Header(PROTOCOL_ID + 1, 0, 0, 0), serialize(X1))}
        \cup AppPackets) \X {"X"}
    \cup {HANDSHAKE_CHALLENGE, HANDSHAKE_RESPONSE,
          pack_packet(Header(PROTOCOL_ID, 0, 0, 0), serialize(X1))} \X {"Y"}

NextRecv ==
    \/ Connect("A", 0)
    \/ Send("A", X1, 0)
    \/ Receive("A")
    \/ UpdateBegin("A", 0)
    \/ RecvStep("A", 0, FALSE)
    \/ UpdateEnd("A", 0)
    \/ \E m \in Datagrams : Inject("A", m[1], m[2])

SpecRecv == Init /\ [][NextRecv]_vars

\* Connection A, adopted by host X, reading the stream of a sender that never
\* gets an acknowledgement: X sends the sequences 0, 1, 2, ... once, in order,
\* each with a payload, and sends the first MaxReplay of them again at will.
StreamPacket(k) == pack_packet(Header(PROTOCOL_ID, k, 0, 0), serialize(X1))

StreamFresh(p) ==
    /\ conn[p].state = "CONNECTED"
    /\ stream < MaxStream
    /\ stream' = stream + 1
    /\ Len(inbox[p]) < MaxInject
    /\ inbox' = [inbox EXCEPT ![p] = Append(@, [data |-> StreamPacket(stream),
                                                address |-> "X"])]
    /\ out' = <<>>
    /\ ev' = NoEv
    /\ UNCHANGED <<conn, pc, clock, ticks, enqueued, lost, handed, got, battle, history, vm>>

StreamAgain(p) ==
    \E k \in 0..(MaxReplay - 1) : k < stream /\ Inject(p, StreamPacket(k), "X")

NextDedup ==
    \/ Inject("A", HANDSHAKE_CHALLENGE, "X")
    \/ StreamFresh("A")
    \/ StreamAgain("A")
    \/ UpdateBegin("A", 0)
    \/ RecvStep("A", 0, TRUE)
    \/ UpdateEnd("A", 0)
    \/ Receive("A")

SpecDedup == Init /\ [][NextDedup]_vars

\* Connection A calling connect() towards a host X that may never answer,
\* polled while the clock advances.  connect() is called only while the clock
\* can still pass HANDSHAKE_TIMEOUT; time passes and datagrams arrive between
\* calls of update().
DeltasHS == {1000, 2600}

MinDelta(deltas) == CHOOSE d \in deltas : \A e \in deltas : d <= e

ConnectInTime(p, deltas, maxticks) ==
    /\ (maxticks - ticks) * MinDelta(deltas) > HANDSHAKE_TIMEOUT
    /\ Connect(p, 0)

InjectBetween(p, data, address) ==
    /\ pc[p] = "idle"
    /\ Inject(p, data, address)

NextHS ==
    \/ ConnectInTime("A", DeltasHS, MaxTicksHS)
    \/ Update("A", 0, FALSE)
    \/ Tick(DeltasHS, MaxTicksHS)
    \/ InjectBetween("A", HANDSHAKE_RESPONSE, "X")
    \/ InjectBetween("A", HANDSHAKE_RESPONSE, "Y")

SpecHS ==
    /\ Init /\ [][NextHS]_vars
    /\ WF_vars(Update("A", 0, FALSE))
    /\ SF_vars(Tick(DeltasHS, MaxTicksHS))

\* Two connections that target each other, on a network that loses nothing.
\* Either may call connect(); both are polled, and every datagram is read
\* before the clock advances.  The clock stays below the 5.0 s timeouts.
DeltasSym == {1100}

InitSym == InitWith("B", "A")

NextSym ==
    \/ \E p \in Peers : Connect(p, 0) \/ Update(p, 0, FALSE)
    \/ TickPolled(DeltasSym, MaxTicksSym)

SpecSym ==
    /\ InitSym /\ [][NextSym]_vars
    /\ \A p \in Peers : WF_vars(Update(p, 0, FALSE))

\* A client A that connects to a server B, which adopts it.  Both send
\* payloads and are polled; the network drops at most MaxLoss datagrams; time
\* passes between the polls, A sending only while the clock can still pass
\* the retransmission threshold, and stays below the 5.0 s timeouts.
DeltasLive == {200}

SendInTime(p, v, maxloss, maxticks) ==
    /\ ticks < maxticks
    /\ Send(p, v, maxloss)

InitLive == InitWith("B", "X")

NextLive ==
    \/ Connect("A", MaxLoss)
    \/ SendInTime("A", X1, MaxLoss, MaxTicksLive)
    \/ Send("B", X1, MaxLoss)
    \/ \E p \in Peers : Update(p, MaxLoss, TRUE)
    \/ ElapsePolled(DeltasLive, MaxTicksLive)

SpecLive ==
    /\ InitLive /\ [][NextLive]_vars
    /\ \A p \in Peers : WF_vars(Update(p, MaxLoss, TRUE))
    /\ WF_vars(ElapsePolled(DeltasLive, MaxTicksLive))

\* Connection A, adopted by host X, reading application packets that arrive
\* out of sender order and more than once: sequence 1 and 0 with different
\* payloads, sequence 1 again with the other payload, sequence 2 without and
\* with a payload; the application calls receive() between the polls.
X2 == << <<"y", True>> >>

OrderPackets ==
    {pack_packet(Header(PROTOCOL_ID, h[1], 0, 0), h[2]) :
        h \in {<<0, serialize(X1)>>, <<1, serialize(X2)>>, <<1, serialize(X1)>>,
               <<2, <<>> >>, <<2, serialize(X2)>>}}

NextOrder ==
    \/ Inject("A", HANDSHAKE_CHALLENGE, "X")
    \/ \E d \in OrderPackets : Inject("A", d, "X")
    \/ Update("A", 0, TRUE)
    \/ ReceiveCall("A", TRUE)

SpecOrder == Init /\ [][NextOrder]_vars

\* Connection A, connected to X, with a packet of its own unacked, while the
\* clock advances and the network hands it datagrams it has to reject: one
\* shorter than a header, one with a foreign protocol id, a well-formed packet
\* from host Y; and X's response and a well-formed packet of X.
RejectDatagrams ==
    {<<HANDSHAKE_RESPONSE, "X">>,
     <<pack_packet(Header(PROTOCOL_ID, 1, 0, 0), serialize(X1)), "X">>,
     <<pack_packet(Header(PROTOCOL_ID, 1, 0, 0), serialize(X1)), "Y">>,
     <<pack_packet(Header(PROTOCOL_ID + 1, 1, 0, 0), serialize(X1)), "X">>,
     <<SubSeq(pack_packet(Header(PROTOCOL_ID, 1, 0, 0), <<>>), 1, 11), "X">>}

DeltasReject == {200}

NextReject ==
    \/ Connect("A", 0)
    \/ Send("A", X1, 0)
    \/ Update("A", 0, FALSE)
    \/ Tick(DeltasReject, MaxTicks)
    \/ \E m \in RejectDatagrams : Inject("A", m[1], m[2])

SpecReject == Init /\ [][NextReject]_vars

\* Calls of is_sequence_greater on sequence numbers at both ends of the
\* 16-bit range, around its middle, and around the distances 16 and 32768.
SeqSamples == {0, 1, 2, 16, 17, 32767, 32768, 32769, 32799, 32800, 65534, 65535}

Compare(s1, s2) ==
    /\ ev' = [op |-> "is_sequence_greater", p |-> "", s1 |-> s1, s2 |-> s2,
              ret |-> is_sequence_greater(s1, s2)]
    /\ UNCHANGED <<conn, inbox, pc, clock, ticks, out, enqueued, lost, stream,
                   handed, got, battle, history, vm>>

NextCmp == \E s1, s2 \in SeqSamples : Compare(s1, s2)

SpecCmp == Init /\ [][NextCmp]_vars

\* Connection A, DISCONNECTED at first, polled while challenges of X and of Y
\* and application packets of both arrive in any order, their sequences
\* next to each other, 16 and more apart, and across the wrap; the clock may
\* pass the idle timeout.
AckSeqs == {0, 1, 2, 19, 65535}

AckPackets ==
    {<<HANDSHAKE_CHALLENGE, h>> : h \in Hosts}
        \cup {<<pack_packet(Header(PROTOCOL_ID, s, 0, 0), serialize(X1)), "X">> :
                 s \in AckSeqs}
        \cup {<<pack_packet(Header(PROTOCOL_ID, 2, 0, 0), serialize(X1)), "Y">>}

DeltasAck == {TIMEOUT + 1}

MaxTicksAck == 1

NextAck ==
    \/ Update("A", 0, TRUE)
    \/ Tick(DeltasAck, MaxTicksAck)
    \/ \E m \in AckPackets : Inject("A", m[1], m[2])

SpecAck == Init /\ [][NextAck]_vars

\* ------------------------------------------------------------ battle engine
\* The battles of this model have two teams of one active combatant each.
Battles == {"b1", "b2"}

Teams == <<"p1", "p2">>

\* an Action: a Move of rotomdex, a SpecialAction of the engine, or the
\* MockAction of the engine's test
Action(kind, name, category, power, priority, target_id) ==
    [kind |-> kind, name |-> name, category |-> category, power |-> power,
     priority |-> priority, target_id |-> target_id]

Tackle == Action("Move", "Tackle", "physical", 50, 0, "")

QuickAttack == Action("Move", "Quick Attack", "physical", 40, 1, "")

Growl == Action("Move", "Growl", "status", 0, 0, "")

Terastallize == Action("SpecialAction", "terastallize", "", 0, 100, "")

MockTackle(target_id) == Action("MockAction", "Tackle", "", 0, 0, target_id)

\* Event(event_type, payload); id tells the objects apart
Event(event_type, payload, id) ==
    [event_type |-> event_type, payload |-> payload, id |-> id]

NoEvent == Event("", <<>>, 0)

\* an add that always prepends
add_at_front(queue, event, to_front) == <<event>> \o queue

\* an add that always appends
add_at_back(queue, event, to_front) == Append(queue, event)

\* EventQueue.add
add(queue, event, to_front) ==
    IF to_front THEN <<event>> \o queue ELSE Append(queue, event)

\* what a handler did: its calls of queue.add, in order, and the hit points
\* it leaves
Did(adds, hp) == [adds |-> adds, hp |-> hp]

Added(event_type, payload, to_front) ==
    [event_type |-> event_type, payload |-> payload, to_front |-> to_front]

\* ---- PokemonRuleset
\* random.uniform(0.85, 1.00), in percent: its two ends
RandomFactors == {85, 100}

find_target_id(user_id) ==
    LET others == SelectSeq(Teams, LAMBDA t : t # user_id)
    IN IF others = <<>> THEN "" ELSE Head(others)

\* _calculate_damage for two combatants of level 50 with equal attack and
\* defense, a neutral type chart and no same-type bonus:
\* int(((2 * 50 / 5 + 2) * power / 50 + 2) * factor), at least 1
calculate_damage(move, factor) ==
    IF move.power = 0 THEN 0
    ELSE LET final_damage == ((22 * move.power + 100) * factor) \div 5000
         IN IF final_damage < 1 THEN 1 ELSE final_damage

handle_action_request(event, hp, factor) ==
    LET action == event.payload.action
        user_id == event.payload.user_id
    IN IF action.kind # "Move" \/ user_id = "" THEN Did(<<>>, hp)
       ELSE IF find_target_id(user_id) = "" THEN Did(<<>>, hp)
       ELSE IF action.category = "status" THEN Did(<<>>, hp)
       ELSE IF calculate_damage(action, factor) = 0 THEN Did(<<>>, hp)
       ELSE Did(<<Added("DAMAGE",
                        [target_id |-> find_target_id(user_id),
                         damage |-> calculate_damage(action, factor),
                         move_name |-> action.name],
                        FALSE)>>, hp)

handle_damage(event, hp) ==
    LET target_id == event.payload.target_id
        left == hp[target_id] - event.payload.damage
    IN IF target_id \notin DOMAIN hp THEN Did(<<>>, hp)
       ELSE IF left <= 0
       THEN Did(<<Added("FAINT", [target_id |-> target_id], TRUE)>>,
                [hp EXCEPT ![target_id] = 0])
       ELSE Did(<<>>, [hp EXCEPT ![target_id] = left])

handle_faint(event, hp) == Did(<<>>, hp)

\* ---- MockRuleset of the engine's test
mock_handle_action_request(event, hp) ==
    LET action == event.payload.action
    IN IF action.kind = "MockAction"
       THEN Did(<<Added("DAMAGE", [target_id |-> action.target_id, amount |-> 10],
                        FALSE)>>, hp)
       ELSE Did(<<>>, hp)

mock_handle_damage(event, hp) ==
    LET target_id == event.payload.target_id
    IN IF target_id \in DOMAIN hp
       THEN Did(<<>>, [hp EXCEPT ![target_id] = @ - event.payload.amount])
       ELSE Did(<<>>, hp)

\* ---- a ruleset with two handlers for one event type, handlers that prepend,
\* and an event type nobody handles
on_request(event, hp) ==
    Did(<<Added("NOTE", [n |-> 0], TRUE)>>, hp)

on_request_again(event, hp) ==
    Did(<<Added("HIT", [user_id |-> event.payload.user_id], FALSE)>>, hp)

on_hit(event, hp) ==
    Did(<<Added("NOTE", [n |-> 1], TRUE), Added("NOTE", [n |-> 2], TRUE)>>, hp)

\* ---- a ruleset whose handler answers every event with another one
echo(event, hp) == Did(<<Added("ECHO", <<>>, FALSE)>>, hp)

Rulesets == {"PokemonRuleset", "MockRuleset", "ReactiveRuleset", "EchoRuleset"}

\* the rulesets whose handlers add finitely many events to those submitted
FiniteRulesets == {"PokemonRuleset", "MockRuleset", "ReactiveRuleset"}

\* rulesets one of which draws a random number
SomeRulesets == {"PokemonRuleset", "MockRuleset"}

\* the rulesets whose handlers draw no random number
DeterministicRulesets == {"MockRuleset", "ReactiveRuleset"}

\* Ruleset.get_event_handlers
get_event_handlers(ruleset) ==
    CASE ruleset = "PokemonRuleset" ->
           [ACTION_REQUEST |-> <<"_handle_action_request">>,
            DAMAGE |-> <<"_handle_damage">>,
            FAINT |-> <<"_handle_faint">>]
      [] ruleset = "MockRuleset" ->
           [ACTION_REQUEST |-> <<"handle_action_request">>,
            DAMAGE |-> <<"handle_damage">>]
      [] ruleset = "ReactiveRuleset" ->
           [ACTION_REQUEST |-> <<"on_request", "on_request_again">>,
            HIT |-> <<"on_hit">>]
      [] ruleset = "EchoRuleset" ->
           [ACTION_REQUEST |-> <<"echo">>, ECHO |-> <<"echo">>]

\* handlers that run in the opposite order
handlers_get_reversed(handlers, event_type) ==
    IF event_type \in DOMAIN handlers
    THEN [i \in DOMAIN handlers[event_type] |->
            handlers[event_type][Len(handlers[event_type]) + 1 - i]]
    ELSE <<>>

\* self._handlers.get(event.event_type, [])
handlers_get(handlers, event_type) ==
    IF event_type \in DOMAIN handlers THEN handlers[event_type] ELSE <<>>

\* handler(event, state, self)
handler_call(handler, event, hp, factor) ==
    CASE handler = "_handle_action_request" -> handle_action_request(event, hp, factor)
      [] handler = "_handle_damage" -> handle_damage(event, hp)
      [] handler = "_handle_faint" -> handle_faint(event, hp)
      [] handler = "handle_action_request" -> mock_handle_action_request(event, hp)
      [] handler = "handle_damage" -> mock_handle_damage(event, hp)
      [] handler = "on_request" -> on_request(event, hp)
      [] handler = "on_request_again" -> on_request_again(event, hp)
      [] handler = "on_hit" -> on_hit(event, hp)
      [] handler = "echo" -> echo(event, hp)

\* ---- Battle
\* the key of the sort of submit_actions
first_priority(pair) == pair[2][1].priority

\* an insertion that puts a pair behind the pairs of its own priority
insert_behind_ties(s, pair) ==
    LET n == Cardinality({i \in DOMAIN s : first_priority(s[i]) >= first_priority(pair)})
    IN SubSeq(s, 1, n) \o <<pair>> \o SubSeq(s, n + 1, Len(s))

\* where sorted(..., reverse=True) puts a pair that came before all of s:
\* behind the pairs of higher priority, ahead of those of its own
insert(s, pair) ==
    LET n == Cardinality({i \in DOMAIN s : first_priority(s[i]) > first_priority(pair)})
    IN SubSeq(s, 1, n) \o <<pair>> \o SubSeq(s, n + 1, Len(s))

\* sorted(valid_action_pairs, key=first priority, reverse=True)
RECURSIVE sorted(_)
sorted(pairs) ==
    IF pairs = <<>> THEN <<>> ELSE insert(sorted(Tail(pairs)), Head(pairs))

\* the payloads of the events of the nested loops of submit_actions
RECURSIVE requests(_)
requests(pairs) ==
    IF pairs = <<>> THEN <<>>
    ELSE [i \in DOMAIN Head(pairs)[2] |->
            [action |-> Head(pairs)[2][i], user_id |-> Head(pairs)[1]]]
         \o requests(Tail(pairs))

\* a fan-out in the order of iteration of the map
submit_actions_unsorted(actions_map) ==
    requests(SelectSeq(actions_map, LAMBDA pair : pair[2] # <<>>))

\* the ACTION_REQUEST payloads submit_actions enqueues, in order
submit_actions(actions_map) ==
    LET valid_action_pairs == SelectSeq(actions_map, LAMBDA pair : pair[2] # <<>>)
    IN requests(sorted(valid_action_pairs))

FullHp == 40

\* Battle(teams, ruleset), with the hit points its ruleset keeps. The fields
\* from serial on record what happened: the events created so far, for each
\* the event being processed when it was added and whether it was added at the
\* front, and every dequeue and handler call in order.
Battle(ruleset) ==
    [ruleset |-> ruleset,
     turn_number |-> 0,
     queue |-> <<>>,
     hp |-> [t \in {Teams[i] : i \in DOMAIN Teams} |-> FullHp],
     pc |-> "idle",
     event |-> NoEvent,
     todo |-> <<>>,
     event_log |-> <<>>,
     logs |-> <<>>,
     at |-> 0,
     serial |-> 0,
     born |-> <<>>,
     trace |-> <<>>]

\* the queue and the records after the calls adds of queue.add made while
\* event parent was being processed
RECURSIVE add_all(_, _, _)
add_all(B, adds, parent) ==
    IF adds = <<>> THEN B
    ELSE LET a == Head(adds)
             e == Event(a.event_type, a.payload, B.serial + 1)
         IN add_all([B EXCEPT !.queue = add(@, e, a.to_front),
                              !.serial = @ + 1,
                              !.born = Append(@, [parent |-> parent,
                                                  to_front |-> a.to_front])],
                    Tail(adds), parent)

\* the action maps the players submit
ActionMaps ==
    {<< <<"p1", <<Tackle>> >>, <<"p2", <<QuickAttack>> >> >>,
     << <<"p1", <<Tackle>> >>, <<"p2", <<Tackle>> >> >>,
     << <<"p1", <<Tackle, Terastallize>> >>, <<"p2", <<QuickAttack>> >> >>,
     << <<"p1", <<>> >>, <<"p2", <<Terastallize, Tackle>> >> >>,
     << <<"p2", <<Growl>> >>, <<"p1", <<QuickAttack>> >> >>,
     << <<"p1", <<MockTackle("p2")>> >>, <<"p2", <<MockTackle("p1")>> >> >>}

MaxCalls == 4

\* no battle creates more events than this; the rulesets that add finitely
\* many events stay below it
MaxEvents == 15 * MaxCalls

\* a loop that also ends when the event in front is a reaction
queue_is_empty_or_reacting(queue) ==
    IF queue = <<>> THEN TRUE ELSE Head(queue).event_type # "ACTION_REQUEST"

\* a counter that counts the call as well as the return
counted_twice(turn_number) == turn_number + 2

\* self.state.turn_number += 1
counted(turn_number) == turn_number + 1

\* the test of the while loop of process_all, negated
queue_is_empty(queue) == queue = <<>>

\* battle b makes the next call of the script: one that was made before by
\* the other battle, or a new one
Calls(b, call, maxcalls) ==
    /\ battle[b].pc = "idle"
    /\ IF battle[b].at < Len(history)
       THEN call = history[battle[b].at + 1] /\ UNCHANGED history
       ELSE Len(history) < maxcalls /\ history' = Append(history, call)

BattleStep(b, op, B) ==
    /\ battle' = [battle EXCEPT ![b] = B]
    /\ ev' = [op |-> op, p |-> b]
    /\ UNCHANGED <<conn, inbox, pc, clock, ticks, out, enqueued, lost, stream,
                   handed, got, vm>>

\* battle.submit_actions(actions_map)
SubmitActions(b, actions_map, maxcalls) ==
    /\ Calls(b, [call |-> "submit_actions", actions_map |-> actions_map], maxcalls)
    /\ LET payloads == submit_actions(actions_map)
           adds == [i \in DOMAIN payloads |->
                      Added("ACTION_REQUEST", payloads[i], FALSE)]
       IN BattleStep(b, "submit_actions",
                     add_all([battle[b] EXCEPT !.at = @ + 1], adds, 0))

\* battle.process_turn() is called: process_all starts with an empty log
ProcessTurn(b, maxcalls) ==
    /\ Calls(b, [call |-> "process_turn"], maxcalls)
    /\ BattleStep(b, "process_turn",
                  [battle[b] EXCEPT !.at = @ + 1, !.pc = "loop", !.event_log = <<>>])

\* process_all: the queue is not empty; popleft, append to the log, look the
\* handlers up
Popleft(b) ==
    LET B == battle[b]
        event == Head(B.queue)
    IN /\ B.pc = "loop"
       /\ B.todo = <<>>
       /\ B.queue # <<>>
       /\ ~queue_is_empty(B.queue)
       /\ BattleStep(b, "popleft",
             [B EXCEPT !.queue = Tail(@),
                       !.event = event,
                       !.event_log = Append(@, event),
                       !.todo = handlers_get(get_event_handlers(B.ruleset),
                                             event.event_type),
                       !.trace = Append(@, [op |-> "popleft", id |-> event.id,
                                            event_type |-> event.event_type,
                                            handler |-> "",
                                            turn_number |-> B.turn_number,
                                            waiting |-> {B.queue[i].id :
                                                           i \in 2..Len(B.queue)}])])
       /\ UNCHANGED history

\* process_all: the next handler of the event runs
Handle(b) ==
    LET B == battle[b]
    IN /\ B.pc = "loop"
       /\ B.todo # <<>>
       /\ B.serial < MaxEvents
       /\ \E factor \in RandomFactors :
            \E did \in {handler_call(Head(B.todo), B.event, B.hp, factor)} :
               BattleStep(b, "handler",
                  add_all([B EXCEPT !.todo = Tail(@),
                                    !.hp = did.hp,
                                    !.trace = Append(@, [op |-> "handler",
                                                         id |-> B.event.id,
                                                         event_type |-> B.event.event_type,
                                                         handler |-> Head(B.todo),
                                                         turn_number |-> B.turn_number,
                                                         waiting |-> {}])],
                          did.adds, B.event.id))
       /\ UNCHANGED history

\* process_all finds the queue empty and returns the log; process_turn counts
\* the turn and returns it
Return(b) ==
    LET B == battle[b]
    IN /\ B.pc = "loop"
       /\ B.todo = <<>>
       /\ queue_is_empty(B.queue)
       /\ BattleStep(b, "return",
             [B EXCEPT !.pc = "idle",
                       !.turn_number = counted(@),
                       !.logs = Append(@, B.event_log)])
       /\ UNCHANGED history

Turn(b) == Popleft(b) \/ Handle(b) \/ Return(b)

InitNet ==
    /\ conn = [p \in Peers |-> Connection("X")]
    /\ inbox = [p \in Peers |-> <<>>]
    /\ pc = [p \in Peers |-> "idle"]
    /\ clock = 0
    /\ ticks = 0
    /\ out = <<>>
    /\ ev = NoEv
    /\ enqueued = [p \in Peers |-> <<>>]
    /\ lost = 0
    /\ stream = 0
    /\ handed = [p \in Peers |-> <<>>]
    /\ got = [p \in Peers |-> {}]

\* One battle, with any of the rulesets, that is given action maps and
\* processes turns.
InitBattle ==
    /\ InitNet
    /\ \E ruleset \in Rulesets : battle = [b \in Battles |-> Battle(ruleset)]
    /\ history = <<>>
    /\ vm = <<>>

NextBattle ==
    \/ \E actions_map \in ActionMaps : SubmitActions("b1", actions_map, MaxCalls)
    \/ ProcessTurn("b1", MaxCalls)
    \/ Popleft("b1")
    \/ Handle("b1")
    \/ Return("b1")

SpecBattle == InitBattle /\ [][NextBattle]_vars

\* The same, every turn that was begun being carried on.
SpecTurn == InitBattle /\ [][NextBattle]_vars /\ WF_vars(Turn("b1"))

\* Two battles with the same deterministic ruleset, each making the calls of
\* one script.
InitTwin ==
    /\ InitNet
    /\ \E ruleset \in DeterministicRulesets :
          battle = [b \in Battles |-> Battle(ruleset)]
    /\ history = <<>>
    /\ vm = <<>>

MaxCallsTwin == 3

NextTwin ==
    \E b \in Battles :
        \/ \E actions_map \in ActionMaps : SubmitActions(b, actions_map, MaxCallsTwin)
        \/ ProcessTurn(b, MaxCallsTwin)
        \/ Popleft(b)
        \/ Handle(b)
        \/ Return(b)

SpecTwin == InitTwin /\ [][NextTwin]_vars

\* ---- Battle(teams, ruleset): the construction
\* the combatants a team is made of: [id, is_active]
Combatants == {[id |-> i, is_active |-> a] : i \in {"a", "b"}, a \in BOOLEAN}

MaxTeam == 2

MaxTeams == 2

\* the teams handed to the constructor
TeamLists ==
    LET OneTeam == UNION {[1..n -> Combatants] : n \in 0..MaxTeam}
    IN UNION {[1..n -> OneTeam] : n \in 0..MaxTeams}

\* the inner loop of _create_initial_state: the id of the last combatant
\* whose flag is set, "" for None
RECURSIVE active_combatant_id(_, _)
active_combatant_id(team_combatants, found) ==
    IF team_combatants = <<>> THEN found
    ELSE active_combatant_id(Tail(team_combatants),
                             IF Head(team_combatants).is_active
                             THEN Head(team_combatants).id ELSE found)

\* _create_initial_state: the BattleState, or the ValueError of the first
\* team without an active combatant
create_initial_state(teams) ==
    IF \E t \in DOMAIN teams : active_combatant_id(teams[t], "") = ""
    THEN [raised |-> TRUE, state |-> <<>>]
    ELSE [raised |-> FALSE,
          state |-> [teams |-> [t \in DOMAIN teams |->
                                  [combatants |-> [i \in DOMAIN teams[t] |-> teams[t][i].id],
                                   active_combatant_id |->
                                       active_combatant_id(teams[t], "")]],
                     turn_number |-> 0]]

\* Battle(teams, ruleset): there is an object only if __init__ returns
Construct(teams) ==
    /\ \E r \in {create_initial_state(teams)} :
          /\ battle' = IF r.raised THEN <<>> ELSE [state |-> r.state, queue |-> <<>>]
          /\ ev' = [op |-> "Battle", p |-> "", teams |-> teams, raised |-> r.raised]
    /\ UNCHANGED <<conn, inbox, pc, clock, ticks, out, enqueued, lost, stream,
                   handed, got, history, vm>>

NextConstruct == \E teams \in TeamLists : Construct(teams)

SpecConstruct == Init /\ [][NextConstruct]_vars

\* ---- the packet codec on its own
\* Header fields at both ends of their ranges and around the byte borders
\* (the model's integers end at 2^31 - 1), payloads, and buffers cut short.
CodecHeaders ==
    {Header(pid, seq, ack, bits) :
        pid \in {0, 1, PROTOCOL_ID, 2147483647},
        seq \in {0, 65535, 65536, 2147483647},
        ack \in {0, 255, 256, 65535},
        bits \in {0, 1, 32768, 65535}}

CodecPayloads == {<<>>, <<0>>, <<255, 0, 7>>}

CodecBuffers ==
    LET whole == pack_packet(Header(PROTOCOL_ID, 258, 3, 32769), <<9, 8>>)
    IN {SubSeq(whole, 1, n) : n \in 0..Len(whole)}

\* unpack_packet(pack_packet(Packet(header, payload)))
PackUnpack(header, payload) ==
    /\ \E data \in {pack_packet(header, payload)} :
          ev' = [op |-> "pack_packet", p |-> "", header |-> header,
                 payload |-> payload, data |-> data, back |-> unpack_packet(data)]
    /\ UNCHANGED <<conn, inbox, pc, clock, ticks, out, enqueued, lost, stream,
                   handed, got, battle, history, vm>>

\* unpack_packet(data)
Unpack(data) ==
    /\ ev' = [op |-> "unpack_packet", p |-> "", data |-> data,
              back |-> unpack_packet(data)]
    /\ UNCHANGED <<conn, inbox, pc, clock, ticks, out, enqueued, lost, stream,
                   handed, got, battle, history, vm>>

NextCodec ==
    \/ \E header \in CodecHeaders, payload \in CodecPayloads : PackUnpack(header, payload)
    \/ \E data \in CodecBuffers : Unpack(data)

SpecCodec == Init /\ [][NextCodec]_vars

\* ---- the serializer on its own
MaxItems == 2
MaxList == 2

Scalars ==
    {None, True, False, PyInt(0), PyInt(-1), PyInt(2147483647),
     PyInt(-2147483647 - 1), PyFloat("1.5"), PyFloat("-2.0"), PyStr(""),
     PyStr("pen")}

\* "x" and "command" are in the codebook, "a" is not
SerialKeys == {"x", "command", "a"}

InnerDicts ==
    {<<>>} \cup {<< <<k, v>> >> : k \in {"x", "a"},
                                  v \in {None, PyInt(-1), PyStr("a"), PyDict(<<>>)}}

ListItems == {None, PyInt(-1), PyDict(<<>>), PyDict(<< <<"a", None>> >>)}

Lists == UNION {[1..n -> ListItems] : n \in 0..MaxList}

SerialValues ==
    Scalars \cup {PyList(l) : l \in Lists} \cup {PyDict(d) : d \in InnerDicts}

\* dictionaries of up to MaxItems items under distinct keys
SerialDicts ==
    {d \in UNION {[1..n -> SerialKeys \X SerialValues] : n \in 0..MaxItems} :
        \A i, j \in DOMAIN d : i # j => d[i][1] # d[j][1]}

\* the dictionary to serialize is drawn at the start
InitSerial ==
    /\ InitNet
    /\ battle = <<>>
    /\ \E d \in SerialDicts : history = <<[call |-> "serialize", data |-> d]>>
    /\ vm = <<>>

\* deserialize(serialize(d))
RoundTrip ==
    /\ ev = NoEv
    /\ \E d \in {history[1].data} : \E data \in {serialize(d)} :
          ev' = [op |-> "serialize", p |-> "", d |-> d, data |-> data,
                 back |-> deserialize(data)]
    /\ UNCHANGED <<conn, inbox, pc, clock, ticks, out, enqueued, lost, stream,
                   handed, got, battle, history, vm>>

NextSerial == RoundTrip

SpecSerial == InitSerial /\ [][NextSerial]_vars

\* ------------------------------------------------------------- RogueScript
\* ---- lexer
\* A source text is the sequence of its characters.
Letters ==
    {"a", "b", "c", "d", "e", "f", "g", "h", "i", "j", "k", "l", "m", "n", "o",
     "p", "q", "r", "s", "t", "u", "v", "w", "x", "y", "z",
     "A", "B", "C", "D", "E", "F", "G", "H", "I", "J", "K", "L", "M", "N", "O",
     "P", "Q", "R", "S", "T", "U", "V", "W", "X", "Y", "Z"}

Digits == {"0", "1", "2", "3", "4", "5", "6", "7", "8", "9"}

isalpha(c) == c \in Letters
isdigit(c) == c \in Digits
isalnum(c) == isalpha(c) \/ isdigit(c)
isspace(c) == c \in {" ", "\n", "\t", "\r"}

\* the members of the enum TokenType
TokenType ==
    {"NUMBER", "STRING", "IDENTIFIER",
     "IF", "ELSE", "WHILE", "FOR", "DEF", "RETURN", "TRUE", "FALSE", "NIL",
     "AND", "OR", "NOT",
     "PLUS", "MINUS", "STAR", "SLASH", "DOT", "COMMA", "COLON", "SEMICOLON",
     "LPAREN", "RPAREN", "LBRACE", "RBRACE",
     "EQUALS", "EQUAL_EQUAL", "BANG", "BANG_EQUAL", "GREATER", "GREATER_EQUAL",
     "LESS", "LESS_EQUAL", "EOF"}

KEYWORDS ==
    (<<"i", "f">> :> "IF") @@ (<<"e", "l", "s", "e">> :> "ELSE")
    @@ (<<"w", "h", "i", "l", "e">> :> "WHILE") @@ (<<"f", "o", "r">> :> "FOR")
    @@ (<<"d", "e", "f">> :> "DEF")
    @@ (<<"r", "e", "t", "u", "r", "n">> :> "RETURN")
    @@ (<<"T", "r", "u", "e">> :> "TRUE")
    @@ (<<"F", "a", "l", "s", "e">> :> "FALSE")
    @@ (<<"n", "i", "l">> :> "NIL") @@ (<<"a", "n", "d">> :> "AND")
    @@ (<<"o", "r">> :> "OR") @@ (<<"n", "o", "t">> :> "NOT")

\* token_map of get_next_token
token_map ==
    ("+" :> "PLUS") @@ ("-" :> "MINUS") @@ ("*" :> "STAR") @@ ("/" :> "SLASH")
    @@ ("(" :> "LPAREN") @@ (")" :> "RPAREN") @@ ("{" :> "LBRACE")
    @@ ("}" :> "RBRACE") @@ ("." :> "DOT") @@ ("," :> "COMMA")
    @@ (":" :> "COLON") @@ (";" :> "SEMICOLON")

\* Token(type, value, line); the value is the lexeme, <<>> for the None of EOF
Token(type, value, line) == [type |-> type, value |-> value, line |-> line]

\* how far the characters from pos on are in chars: the first position that
\* is not, Len(text) + 1 at the end
RECURSIVE Span(_, _, _)
Span(text, pos, chars) ==
    IF pos <= Len(text) /\ text[pos] \in chars THEN Span(text, pos + 1, chars)
    ELSE pos

\* the end of a comment: the position of the newline, or the end of the text
RECURSIVE EndOfLine(_, _)
EndOfLine(text, pos) ==
    IF pos <= Len(text) /\ text[pos] # "\n" THEN EndOfLine(text, pos + 1) ELSE pos

\* how many of the characters pos..last are newlines; advance() counts them
Newlines(text, pos, last) ==
    Cardinality({i \in pos..last : i <= Len(text) /\ text[i] = "\n"})

\* skip_whitespace_and_comments(): the position it stops at
RECURSIVE skip_whitespace_and_comments(_, _)
skip_whitespace_and_comments(text, pos) ==
    IF pos > Len(text) THEN pos
    ELSE IF isspace(text[pos]) THEN skip_whitespace_and_comments(text, pos + 1)
    ELSE IF text[pos] = "#"
    THEN skip_whitespace_and_comments(text, EndOfLine(text, pos))
    ELSE pos

\* get_identifier_or_keyword(): the token and the position after it
get_identifier_or_keyword(text, pos, line) ==
    LET end == Span(text, pos, Letters \cup Digits \cup {"_"})
        result == SubSeq(text, pos, end - 1)
        token_type == IF result \in DOMAIN KEYWORDS THEN KEYWORDS[result]
                      ELSE "IDENTIFIER"
    IN [raised |-> FALSE, token |-> Token(token_type, result, line), pos |-> end]

\* get_number(): digits, and a fraction when a "." is followed by a digit
get_number(text, pos, line) ==
    LET int_end == Span(text, pos, Digits)
        is_float == /\ int_end + 1 <= Len(text)
                    /\ text[int_end] = "."
                    /\ isdigit(text[int_end + 1])
        end == IF is_float THEN Span(text, int_end + 1, Digits) ELSE int_end
    IN [raised |-> FALSE, token |-> Token("NUMBER", SubSeq(text, pos, end - 1), line),
        pos |-> end]

\* the closing quote of a string, or the newline or end of text before it
RECURSIVE EndOfString(_, _)
EndOfString(text, pos) ==
    IF pos <= Len(text) /\ text[pos] # "\"" /\ text[pos] # "\n"
    THEN EndOfString(text, pos + 1)
    ELSE pos

\* get_string(): raised when the line or the text ends before the closing quote
get_string(text, pos, line) ==
    LET end == EndOfString(text, pos + 1)
    IN IF end > Len(text) \/ text[end] = "\n"
       THEN [raised |-> TRUE, token |-> Token("EOF", <<>>, line), pos |-> end]
       ELSE [raised |-> FALSE,
             token |-> Token("STRING", SubSeq(text, pos + 1, end - 1), line),
             pos |-> end + 1]

\* get_next_token() with the lexer at pos on line
get_next_token(text, pos0, line0) ==
    LET pos == skip_whitespace_and_comments(text, pos0)
        line == line0 + Newlines(text, pos0, pos - 1)
        c == text[pos]
        Two(one, two) ==
            IF pos + 1 <= Len(text) /\ text[pos + 1] = "="
            THEN [raised |-> FALSE, token |-> Token(two, <<c, "=">>, line), pos |-> pos + 2]
            ELSE [raised |-> FALSE, token |-> Token(one, <<c>>, line), pos |-> pos + 1]
    IN IF pos > Len(text)
       THEN [raised |-> FALSE, token |-> Token("EOF", <<>>, line), pos |-> pos]
       ELSE IF isdigit(c) THEN get_number(text, pos, line)
       ELSE IF isalpha(c) \/ c = "_" THEN get_identifier_or_keyword(text, pos, line)
       ELSE IF c = "\"" THEN get_string(text, pos, line)
       ELSE IF c = "=" THEN Two("EQUALS", "EQUAL_EQUAL")
       ELSE IF c = "!" THEN Two("BANG", "BANG_EQUAL")
       ELSE IF c = ">" THEN Two("GREATER", "GREATER_EQUAL")
       ELSE IF c = "<" THEN Two("LESS", "LESS_EQUAL")
       ELSE IF c \in DOMAIN token_map
       THEN [raised |-> FALSE, token |-> Token(token_map[c], <<c>>, line), pos |-> pos + 1]
       ELSE [raised |-> TRUE, token |-> Token("EOF", <<>>, line), pos |-> pos]

\* get_all_tokens(): raised stands for the Exception of an invalid character
\* or an unterminated string
RECURSIVE get_all_tokens(_, _, _, _)
get_all_tokens(text, pos, line, tokens) ==
    LET r == get_next_token(text, pos, line)
    IN IF r.raised THEN [raised |-> TRUE, tokens |-> <<>>]
       ELSE IF r.token.type = "EOF"
       THEN [raised |-> FALSE, tokens |-> Append(tokens, r.token)]
       ELSE get_all_tokens(text, r.pos, r.token.line, Append(tokens, r.token))

\* ---- parser
\* The result of a call: a value returned, or an exception raised.
Returned(value) == [raised |-> FALSE, exception |-> "", value |-> value]
Raised(exception) == [raised |-> TRUE, exception |-> exception, value |-> <<>>]

is_at_end(tokens, current) == tokens[current].type = "EOF"

check(tokens, current, token_type) ==
    ~is_at_end(tokens, current) /\ tokens[current].type = token_type

\* _error(token, message): ParseError(err_msg) passes one argument to a
\* constructor that takes message and line
error == Raised("TypeError")

\* _consume(token_type, message): the position after the token
consume(tokens, current, token_type) ==
    IF check(tokens, current, token_type) THEN Returned(current + 1) ELSE error

\* the parameters of _def_statement from current on: the position of the token
\* after the last parameter
RECURSIVE params(_, _)
params(tokens, current) ==
    LET name == consume(tokens, current, "IDENTIFIER")
    IN IF name.raised THEN name
       ELSE IF check(tokens, name.value, "COMMA") THEN params(tokens, name.value + 1)
       ELSE name

RECURSIVE declaration(_, _), def_statement(_, _), block(_, _)

\* _declaration(): TokenType has no member VAR, so reading TokenType.VAR
\* raises AttributeError, which the except clause for ParseError lets pass;
\* _var_declaration and _statement behind it are never reached
declaration(tokens, current) ==
    IF check(tokens, current, "DEF") THEN def_statement(tokens, current + 1)
    ELSE IF "VAR" \notin TokenType THEN Raised("AttributeError")
    ELSE Raised("NotReached")

\* _block(): declarations up to the closing brace
block(tokens, current) ==
    IF ~check(tokens, current, "RBRACE") /\ ~is_at_end(tokens, current)
    THEN LET d == declaration(tokens, current)
         IN IF d.raised THEN d ELSE block(tokens, d.value)
    ELSE consume(tokens, current, "RBRACE")

\* _def_statement(kind): ast.DefStmt(name, params, body, line) passes four
\* arguments to a constructor that takes three
def_statement(tokens, current) ==
    LET name == consume(tokens, current, "IDENTIFIER")
        lparen == consume(tokens, name.value, "LPAREN")
        ps == IF check(tokens, lparen.value, "RPAREN") THEN lparen
              ELSE params(tokens, lparen.value)
        rparen == consume(tokens, ps.value, "RPAREN")
        lbrace == consume(tokens, rparen.value, "LBRACE")
        body == block(tokens, lbrace.value)
    IN IF name.raised THEN name
       ELSE IF lparen.raised THEN lparen
       ELSE IF ps.raised THEN ps
       ELSE IF rparen.raised THEN rparen
       ELSE IF lbrace.raised THEN lbrace
       ELSE IF body.raised THEN body
       ELSE Raised("TypeError")

\* Parser.parse(): ast.Program(statements, line) passes two arguments to a
\* constructor that takes one
RECURSIVE parse_from(_, _)
parse_from(tokens, current) ==
    IF ~is_at_end(tokens, current)
    THEN LET d == declaration(tokens, current)
         IN IF d.raised THEN d ELSE parse_from(tokens, d.value)
    ELSE Raised("TypeError")

parse(tokens) == parse_from(tokens, 1)

\* ---- lexer and parser on source texts
Words ==
    DOMAIN KEYWORDS
    \cup {<<"v", "a", "r">>, <<"p", "r", "i", "n", "t">>, <<"a">>, <<"_">>,
          <<"i", "f", "f">>, <<"I", "f">>, <<"t", "r", "u", "e">>,
          <<"n", "i", "l", "2">>, <<"_", "x", "1">>, <<"v", "a", "r", "s">>}

Symbols == {<<"1">>, <<"+">>, <<";">>, <<"(">>, <<")">>, <<"{">>, <<"}">>, <<"=", "=">>}

\* '1 +;', '1 + (2 / );', 'def f() { }', 'def f(a, b) { 1; }', '# c', '"s', '@'
Examples ==
    {<<"1", " ", "+", ";">>,
     <<"1", " ", "+", " ", "(", "2", " ", "/", " ", ")", ";">>,
     <<"d", "e", "f", " ", "f", "(", ")", " ", "{", " ", "}">>,
     <<"d", "e", "f", " ", "f", "(", "a", ",", " ", "b", ")", " ", "{", " ", "1",
       ";", " ", "}">>,
     <<"#", " ", "c", "\n", "1", ".", "5">>,
     <<"\"", "s">>,
     <<"@">>,
     <<>>}

Texts ==
    Words \cup Examples
    \cup {w \o <<" ">> \o x : w \in Words, x \in Words \cup Symbols}

\* a source text is drawn at the start
InitLex ==
    /\ InitNet
    /\ battle = <<>>
    /\ history = <<>>
    /\ \E text \in Texts : vm = [phase |-> "text", text |-> text]

\* Lexer(text).get_all_tokens()
Lex ==
    /\ vm.phase = "text"
    /\ \E r \in {get_all_tokens(vm.text, 1, 1, <<>>)} :
          vm' = [phase |-> "tokens", text |-> vm.text, raised |-> r.raised,
                 tokens |-> r.tokens]
    /\ UNCHANGED <<conn, inbox, pc, clock, ticks, out, ev, enqueued, lost, stream,
                   handed, got, battle, history>>

\* Parser(tokens).parse()
Parse ==
    /\ vm.phase = "tokens"
    /\ ~vm.raised
    /\ vm' = [phase |-> "parsed", text |-> vm.text, tokens |-> vm.tokens,
              program |-> parse(vm.tokens)]
    /\ UNCHANGED <<conn, inbox, pc, clock, ticks, out, ev, enqueued, lost, stream,
                   handed, got, battle, history>>

NextLex == Lex \/ Parse

SpecLex == InitLex /\ [][NextLex]_vars

\* ---- syntax trees
\* A node is a record tagged with the name of its class in ast_nodes.py; a
\* name is a string, an absent part (no initializer, no else, no return value)
\* is Absent.
Absent == [node |-> "None"]
Literal(value) == [node |-> "Literal", value |-> value]
VariableExpr(name) == [node |-> "VariableExpr", name |-> name]
AssignExpr(name, value) == [node |-> "AssignExpr", name |-> name, value |-> value]
Binary(left, operator, right) ==
    [node |-> "Binary", left |-> left, operator |-> operator, right |-> right]
Unary(operator, right) == [node |-> "Unary", operator |-> operator, right |-> right]
Grouping(expression) == [node |-> "Grouping", expression |-> expression]
LogicalExpr(left, operator, right) ==
    [node |-> "LogicalExpr", left |-> left, operator |-> operator, right |-> right]
CallExpr(callee, arguments) ==
    [node |-> "CallExpr", callee |-> callee, arguments |-> arguments]
ExpressionStmt(expression) == [node |-> "ExpressionStmt", expression |-> expression]
PrintStmt(expression) == [node |-> "PrintStmt", expression |-> expression]
VarDeclStmt(name, initializer) ==
    [node |-> "VarDeclStmt", name |-> name, initializer |-> initializer]
BlockStmt(statements) == [node |-> "BlockStmt", statements |-> statements]
IfStmt(condition, then_branch, else_branch) ==
    [node |-> "IfStmt", condition |-> condition, then_branch |-> then_branch,
     else_branch |-> else_branch]
WhileStmt(condition, body) == [node |-> "WhileStmt", condition |-> condition, body |-> body]
DefStmt(name, parameters, body) ==
    [node |-> "DefStmt", name |-> name, params |-> parameters, body |-> body]
ReturnStmt(value) == [node |-> "ReturnStmt", value |-> value]
Program(statements) == [node |-> "Program", statements |-> statements]

\* ---- compiler
OP_PUSH_CONST == 0
OP_NIL == 1
OP_TRUE == 2
OP_FALSE == 3
OP_POP == 4
OP_DEFINE_GLOBAL == 5
OP_GET_GLOBAL == 6
OP_SET_GLOBAL == 7
OP_GET_LOCAL == 8
OP_SET_LOCAL == 9
OP_ADD == 10
OP_SUBTRACT == 11
OP_MULTIPLY == 12
OP_DIVIDE == 13
OP_EQUAL == 14
OP_GREATER == 15
OP_LESS == 16
OP_NEGATE == 17
OP_NOT == 18
OP_JUMP == 19
OP_JUMP_IF_FALSE == 20
OP_LOOP == 21
OP_CALL == 22
OP_RETURN == 23
OP_PRINT == 24

Local(name, depth) == [name |-> name, depth |-> depth]

RogueScriptFunction(name, arity, code, constants) ==
    [type |-> "function", name |-> name, arity |-> arity,
     chunk |-> [code |-> code, constants |-> constants]]

\* Compiler(func_type): the chunk of its function, its locals and its scope
\* depth; raised stands for a CompileError.  A function's compiler starts
\* with a local of the empty name in slot 0.
Compiler(func_type) ==
    [code |-> <<>>, constants |-> <<>>,
     locals |-> IF func_type = "script" THEN <<>> ELSE <<Local("", 0)>>,
     scope_depth |-> 0, raised |-> FALSE]

emit_byte(c, byte) == [c EXCEPT !.code = Append(@, byte)]

emit_bytes(c, byte1, byte2) == emit_byte(emit_byte(c, byte1), byte2)

\* 0xFFFF, the largest offset of a jump
JUMP_MAX == 65535

\* _emit_jump(instruction): the offset it returns is OffsetOfJump of the result
emit_jump(c, instruction) == [c EXCEPT !.code = @ \o <<instruction, 255, 255>>]

OffsetOfJump(c) == Len(c.code) - 2

\* a patch that measures the jump from the operand's first byte
patch_jump_from_operand(c, offset) ==
    LET jump == Len(c.code) - offset
    IN IF jump > JUMP_MAX THEN [c EXCEPT !.raised = TRUE]
       ELSE [c EXCEPT !.code = [@ EXCEPT ![offset + 1] = (jump \div 256) % 256,
                                         ![offset + 2] = jump % 256]]

\* _patch_jump(offset); offsets count from 0
patch_jump(c, offset) ==
    LET jump == Len(c.code) - offset - 2
    IN IF jump > JUMP_MAX THEN [c EXCEPT !.raised = TRUE]
       ELSE [c EXCEPT !.code = [@ EXCEPT ![offset + 1] = (jump \div 256) % 256,
                                         ![offset + 2] = jump % 256]]

emit_loop(c, loop_start) ==
    LET jump == (Len(c.code) + 1) - loop_start + 2
    IN IF jump > JUMP_MAX THEN [c EXCEPT !.raised = TRUE]
       ELSE [c EXCEPT !.code = @ \o <<OP_LOOP, (jump \div 256) % 256, jump % 256>>]

\* chunk.add_constant(value); the index it returns is Len(constants) - 1 of
\* the result
add_constant(c, value) == [c EXCEPT !.constants = Append(@, value)]

emit_constant(c, value) ==
    LET added == add_constant(c, value)
    IN IF Len(added.constants) - 1 > 255 THEN [added EXCEPT !.raised = TRUE]
       ELSE emit_bytes(added, OP_PUSH_CONST, Len(added.constants) - 1)

emit_return(c) == emit_byte(emit_byte(c, OP_NIL), OP_RETURN)

\* a declaration that does not look at the locals there are
add_local_unchecked(c, name) ==
    [c EXCEPT !.locals = Append(@, Local(name, c.scope_depth))]

\* the locals of the current scope are those on top with the current depth
add_local(c, name) ==
    IF \E i \in DOMAIN c.locals :
          /\ c.locals[i].name = name
          /\ \A j \in i..Len(c.locals) : c.locals[j].depth >= c.scope_depth
    THEN [c EXCEPT !.raised = TRUE]
    ELSE [c EXCEPT !.locals = Append(@, Local(name, c.scope_depth))]

\* a search from the bottom of the locals: the outermost declaration
resolve_local_outermost(c, name) ==
    IF \E i \in DOMAIN c.locals : c.locals[i].name = name
    THEN (CHOOSE i \in DOMAIN c.locals :
             /\ c.locals[i].name = name
             /\ \A j \in DOMAIN c.locals : c.locals[j].name = name => j >= i) - 1
    ELSE -1

\* _resolve_local(name): the slot, counted from 0, or -1 for None
resolve_local(c, name) ==
    IF \E i \in DOMAIN c.locals : c.locals[i].name = name
    THEN (CHOOSE i \in DOMAIN c.locals :
             /\ c.locals[i].name = name
             /\ \A j \in DOMAIN c.locals : c.locals[j].name = name => j <= i) - 1
    ELSE -1

\* _identifier_constant(name) followed by the two bytes of the instruction
emit_named(c, instruction, name) ==
    LET added == add_constant(c, PyStr(name))
    IN IF Len(added.constants) - 1 > 255 THEN [added EXCEPT !.raised = TRUE]
       ELSE emit_bytes(added, instruction, Len(added.constants) - 1)

begin_scope(c) == [c EXCEPT !.scope_depth = @ + 1]

\* the locals that are left when those deeper than depth are popped
RECURSIVE PopLocals(_, _)
PopLocals(locals, depth) ==
    IF locals # <<>> /\ locals[Len(locals)].depth > depth
    THEN PopLocals(SubSeq(locals, 1, Len(locals) - 1), depth)
    ELSE locals

end_scope(c) ==
    LET kept == PopLocals(c.locals, c.scope_depth - 1)
        count == Len(c.locals) - Len(kept)
    IN [c EXCEPT !.scope_depth = @ - 1,
                 !.locals = kept,
                 !.code = @ \o [i \in 1..count |-> OP_POP]]

RECURSIVE accept(_, _), accept_all(_, _, _), visit_logical_expr(_, _),
          visit_def_stmt(_, _), visit_binary_expr(_, _), visit_if_stmt(_, _),
          visit_while_stmt(_, _)

\* for statement in statements: statement.accept(self), from the i-th on
accept_all(c, statements, i) ==
    IF i > Len(statements) \/ c.raised THEN c
    ELSE accept_all(accept(c, statements[i]), statements, i + 1)

visit_binary_expr(c, expr) ==
    LET operands == accept(accept(c, expr.left), expr.right)
        op == expr.operator
    IN CASE op = "PLUS" -> emit_byte(operands, OP_ADD)
         [] op = "MINUS" -> emit_byte(operands, OP_SUBTRACT)
         [] op = "STAR" -> emit_byte(operands, OP_MULTIPLY)
         [] op = "SLASH" -> emit_byte(operands, OP_DIVIDE)
         [] op = "EQUAL_EQUAL" -> emit_byte(operands, OP_EQUAL)
         [] op = "BANG_EQUAL" -> emit_bytes(operands, OP_EQUAL, OP_NOT)
         [] op = "GREATER" -> emit_byte(operands, OP_GREATER)
         [] op = "GREATER_EQUAL" -> emit_bytes(operands, OP_LESS, OP_NOT)
         [] op = "LESS" -> emit_byte(operands, OP_LESS)
         [] op = "LESS_EQUAL" -> emit_bytes(operands, OP_GREATER, OP_NOT)
         [] OTHER -> [operands EXCEPT !.raised = TRUE]

\* 'and' and 'or' compiled without the jumps: both sides are evaluated
visit_logical_expr_eager(c, expr) ==
    accept(emit_byte(accept(c, expr.left), OP_POP), expr.right)

visit_logical_expr(c, expr) ==
    LET left == accept(c, expr.left)
    IN IF expr.operator = "OR"
       THEN LET else_jump == emit_jump(left, OP_JUMP_IF_FALSE)
                end_jump == emit_jump(else_jump, OP_JUMP)
                patched == patch_jump(end_jump, OffsetOfJump(else_jump))
                right == accept(emit_byte(patched, OP_POP), expr.right)
            IN patch_jump(right, OffsetOfJump(end_jump))
       ELSE IF expr.operator = "AND"
       THEN LET end_jump == emit_jump(left, OP_JUMP_IF_FALSE)
                right == accept(emit_byte(end_jump, OP_POP), expr.right)
            IN patch_jump(right, OffsetOfJump(end_jump))
       ELSE left

visit_def_stmt(c, stmt) ==
    LET RECURSIVE add_params(_, _)
        add_params(fc, i) ==
            IF i > Len(stmt.params) THEN fc
            ELSE add_params(add_local(fc, stmt.params[i]), i + 1)
        func_compiler ==
            emit_return(accept_all(add_params(begin_scope(Compiler("function")), 1),
                                   stmt.body.statements, 1))
        function == RogueScriptFunction(stmt.name, Len(stmt.params),
                                        func_compiler.code, func_compiler.constants)
        pushed == emit_constant(c, function)
    IN IF func_compiler.raised THEN [c EXCEPT !.raised = TRUE]
       ELSE IF c.scope_depth > 0 THEN add_local(pushed, stmt.name)
       ELSE emit_named(pushed, OP_DEFINE_GLOBAL, stmt.name)

\* an if whose condition is popped on the taken path only
visit_if_stmt_one_pop(c, stmt) ==
    LET then_jump == emit_jump(accept(c, stmt.condition), OP_JUMP_IF_FALSE)
        then_branch == accept(emit_byte(then_jump, OP_POP), stmt.then_branch)
        else_jump == emit_jump(then_branch, OP_JUMP)
        patched == patch_jump(else_jump, OffsetOfJump(then_jump))
        else_branch == IF stmt.else_branch # Absent
                       THEN accept(patched, stmt.else_branch)
                       ELSE patched
    IN patch_jump(else_branch, OffsetOfJump(else_jump))

visit_if_stmt(c, stmt) ==
    LET then_jump == emit_jump(accept(c, stmt.condition), OP_JUMP_IF_FALSE)
        then_branch == accept(emit_byte(then_jump, OP_POP), stmt.then_branch)
        else_jump == emit_jump(then_branch, OP_JUMP)
        popped == emit_byte(patch_jump(else_jump, OffsetOfJump(then_jump)), OP_POP)
        else_branch == IF stmt.else_branch # Absent
                       THEN accept(popped, stmt.else_branch)
                       ELSE popped
    IN patch_jump(else_branch, OffsetOfJump(else_jump))

visit_while_stmt(c, stmt) ==
    LET loop_start == Len(c.code)
        exit_jump == emit_jump(accept(c, stmt.condition), OP_JUMP_IF_FALSE)
        body == accept(emit_byte(exit_jump, OP_POP), stmt.body)
        looped == emit_loop(body, loop_start)
    IN emit_byte(patch_jump(looped, OffsetOfJump(exit_jump)), OP_POP)

\* node.accept(self): the visit_ method of the node's class
accept(c, node) ==
    IF c.raised THEN c
    ELSE CASE node.node = "ExpressionStmt" ->
                 emit_byte(accept(c, node.expression), OP_POP)
           [] node.node = "PrintStmt" ->
                 emit_byte(accept(c, node.expression), OP_PRINT)
           [] node.node = "VarDeclStmt" ->
                 LET init == IF node.initializer # Absent
                             THEN accept(c, node.initializer)
                             ELSE emit_byte(c, OP_NIL)
                 IN IF c.scope_depth > 0 THEN add_local(init, node.name)
                    ELSE emit_named(init, OP_DEFINE_GLOBAL, node.name)
           [] node.node = "BlockStmt" ->
                 end_scope(accept_all(begin_scope(c), node.statements, 1))
           [] node.node = "IfStmt" -> visit_if_stmt(c, node)
           [] node.node = "WhileStmt" -> visit_while_stmt(c, node)
           [] node.node = "DefStmt" -> visit_def_stmt(c, node)
           [] node.node = "ReturnStmt" ->
                 emit_byte(IF node.value # Absent THEN accept(c, node.value)
                           ELSE emit_byte(c, OP_NIL),
                           OP_RETURN)
           [] node.node = "Binary" -> visit_binary_expr(c, node)
           [] node.node = "Unary" ->
                 LET right == accept(c, node.right)
                 IN IF node.operator = "MINUS" THEN emit_byte(right, OP_NEGATE)
                    ELSE IF node.operator = "BANG" THEN emit_byte(right, OP_NOT)
                    ELSE [right EXCEPT !.raised = TRUE]
           [] node.node = "Literal" ->
                 IF node.value = None THEN emit_byte(c, OP_NIL)
                 ELSE IF node.value = True THEN emit_byte(c, OP_TRUE)
                 ELSE IF node.value = False THEN emit_byte(c, OP_FALSE)
                 ELSE emit_constant(c, node.value)
           [] node.node = "Grouping" -> accept(c, node.expression)
           [] node.node = "VariableExpr" ->
                 IF resolve_local(c, node.name) # -1
                 THEN emit_bytes(c, OP_GET_LOCAL, resolve_local(c, node.name))
                 ELSE emit_named(c, OP_GET_GLOBAL, node.name)
           [] node.node = "AssignExpr" ->
                 LET value == accept(c, node.value)
                 IN IF resolve_local(value, node.name) # -1
                    THEN emit_bytes(value, OP_SET_LOCAL, resolve_local(value, node.name))
                    ELSE emit_named(value, OP_SET_GLOBAL, node.name)
           [] node.node = "LogicalExpr" -> visit_logical_expr(c, node)
           [] node.node = "CallExpr" ->
                 emit_bytes(accept_all(accept(c, node.callee), node.arguments, 1),
                            OP_CALL, Len(node.arguments))

\* the whole script compiled like the statements before the last: the last
\* expression statement popped too and nil returned
compile_popping(program) ==
    LET c == emit_return(accept_all(Compiler("script"), program.statements, 1))
    IN [raised |-> c.raised,
        function |-> RogueScriptFunction("<script>", 0, c.code, c.constants)]

\* Compiler().compile(program): raised stands for the CompileError
compile(program) ==
    LET n == Len(program.statements)
        last_is_expression ==
            n > 0 /\ program.statements[n].node = "ExpressionStmt"
        before == accept_all(Compiler("script"),
                             SubSeq(program.statements, 1,
                                    IF last_is_expression THEN n - 1 ELSE n), 1)
        c == IF last_is_expression
             THEN emit_byte(accept(before, program.statements[n].expression), OP_RETURN)
             ELSE emit_return(before)
    IN [raised |-> c.raised,
        function |-> RogueScriptFunction("<script>", 0, c.code, c.constants)]

\* ---- virtual machine
\* The machine runs the function the compiler returns: a value stack, a stack
\* of call frames [function, ip, base] with ip and base counted from 0, the
\* globals as <<name, value>> items, what print has rendered, and the outcome.
\* The script's own frame has base 0 on an empty stack, the numbering the
\* script's compiler gives its locals.  trace lists, for every instruction
\* executed, the function, the ip and the height of the stack before it.
FRAMES_MAX == 64

Frame(function, ip, base) == [function |-> function, ip |-> ip, base |-> base]

Machine(program, function) ==
    [phase |-> "run", program |-> program, function |-> function,
     stack |-> <<>>, frames |-> <<Frame(function, 0, 0)>>, globals |-> <<>>,
     printed |-> <<>>, trace |-> <<>>, outcome |-> "none", value |-> None]

is_falsy(v) == v = None \/ v = False

is_number(v) == v.type = "int"

Defined(globals, name) == \E i \in DOMAIN globals : globals[i][1] = name

Lookup(globals, name) ==
    globals[CHOOSE i \in DOMAIN globals : globals[i][1] = name][2]

Bool(b) == IF b THEN True ELSE False

\* top is equal to second: unequal tags are unequal, nil equals only nil
values_equal(a, b) == a.type = b.type /\ a = b

\* the run ends: every frame is unwound
Halt(m, outcome, value) ==
    [m EXCEPT !.phase = "done", !.outcome = outcome, !.value = value,
              !.frames = <<>>, !.stack = <<>>]

\* one instruction of the top frame
step(m) ==
    LET frame == m.frames[Len(m.frames)]
        code == frame.function.chunk.code
        constants == frame.function.chunk.constants
        ip == frame.ip
        op == code[ip + 1]
        byte == code[ip + 2]
        offset == code[ip + 2] * 256 + code[ip + 3]
        height == Len(m.stack)
        top == m.stack[height]
        second == m.stack[height - 1]
        traced == [m EXCEPT !.trace = Append(@, [fn |-> frame.function.name,
                                                 ip |-> ip, height |-> height])]
        fail == Halt(traced, "runtime-error", None)
        \* the ip moved to next and the stack replaced
        Go(next, stack) ==
            [traced EXCEPT !.frames[Len(m.frames)].ip = next, !.stack = stack]
        Push(n, v) == Go(ip + n, Append(m.stack, v))
        Popped(k) == SubSeq(m.stack, 1, height - k)
        \* an operator on two numbers
        Arith(v) == IF height < 2 \/ ~is_number(top) \/ ~is_number(second) THEN fail
                    ELSE Go(ip + 1, Append(Popped(2), v))
    IN IF ip + 1 > Len(code) THEN fail
       ELSE CASE op = OP_PUSH_CONST -> Push(2, constants[byte + 1])
              [] op = OP_NIL -> Push(1, None)
              [] op = OP_TRUE -> Push(1, True)
              [] op = OP_FALSE -> Push(1, False)
              [] op = OP_POP -> IF height < 1 THEN fail ELSE Go(ip + 1, Popped(1))
              [] op = OP_DEFINE_GLOBAL ->
                    IF height < 1 THEN fail
                    ELSE [Go(ip + 2, Popped(1)) EXCEPT
                             !.globals = DictSet(@, constants[byte + 1].value, top)]
              [] op = OP_GET_GLOBAL ->
                    IF ~Defined(m.globals, constants[byte + 1].value) THEN fail
                    ELSE Push(2, Lookup(m.globals, constants[byte + 1].value))
              [] op = OP_SET_GLOBAL ->
                    IF height < 1 \/ ~Defined(m.globals, constants[byte + 1].value)
                    THEN fail
                    ELSE [Go(ip + 2, m.stack) EXCEPT
                             !.globals = DictSet(@, constants[byte + 1].value, top)]
              [] op = OP_GET_LOCAL ->
                    IF frame.base + byte + 1 > height THEN fail
                    ELSE Push(2, m.stack[frame.base + byte + 1])
              [] op = OP_SET_LOCAL ->
                    IF height < 1 \/ frame.base + byte + 1 > height THEN fail
                    ELSE Go(ip + 2, [m.stack EXCEPT ![frame.base + byte + 1] = top])
              [] op = OP_ADD ->
                    IF height < 2 THEN fail
                    ELSE IF is_number(top) /\ is_number(second)
                    THEN Go(ip + 1, Append(Popped(2), PyInt(second.value + top.value)))
                    ELSE IF top.type = "str" /\ second.type = "str"
                    THEN Go(ip + 1, Append(Popped(2), PyStr(second.value \o top.value)))
                    ELSE fail
              [] op = OP_SUBTRACT -> Arith(PyInt(second.value - top.value))
              [] op = OP_MULTIPLY -> Arith(PyInt(second.value * top.value))
              [] op = OP_DIVIDE ->
                    IF height >= 2 /\ is_number(top) /\ top.value = 0 THEN fail
                    ELSE Arith(IF second.value % top.value = 0
                               THEN PyInt(second.value \div top.value)
                               ELSE PyFloat(<<second.value, top.value>>))
              [] op = OP_EQUAL ->
                    IF height < 2 THEN fail
                    ELSE Go(ip + 1, Append(Popped(2), Bool(values_equal(top, second))))
              [] op = OP_GREATER -> Arith(Bool(second.value > top.value))
              [] op = OP_LESS -> Arith(Bool(second.value < top.value))
              [] op = OP_NEGATE ->
                    IF height < 1 \/ ~is_number(top) THEN fail
                    ELSE Go(ip + 1, Append(Popped(1), PyInt(0 - top.value)))
              [] op = OP_NOT ->
                    IF height < 1 THEN fail
                    ELSE Go(ip + 1, Append(Popped(1), Bool(is_falsy(top))))
              [] op = OP_JUMP -> Go(ip + 3 + offset, m.stack)
              [] op = OP_JUMP_IF_FALSE ->
                    IF height < 1 THEN fail
                    ELSE Go(IF is_falsy(top) THEN ip + 3 + offset ELSE ip + 3, m.stack)
              [] op = OP_LOOP -> Go(ip + 3 - offset, m.stack)
              [] op = OP_CALL ->
                    IF height < byte + 1 THEN fail
                    ELSE LET callee == m.stack[height - byte]
                         IN IF callee.type # "function" THEN fail
                            ELSE IF callee.arity # byte THEN fail
                            ELSE IF Len(m.frames) >= FRAMES_MAX THEN fail
                            ELSE [Go(ip + 2, m.stack) EXCEPT
                                     !.frames = Append(@, Frame(callee, 0, height - byte - 1))]
              [] op = OP_RETURN ->
                    IF height < 1 THEN fail
                    ELSE IF Len(m.frames) = 1 THEN Halt(traced, "ok", top)
                    ELSE [traced EXCEPT
                             !.frames = SubSeq(@, 1, Len(m.frames) - 1),
                             !.stack = Append(SubSeq(m.stack, 1, frame.base), top)]
              [] op = OP_PRINT ->
                    IF height < 1 THEN fail
                    ELSE [Go(ip + 1, Popped(1)) EXCEPT !.printed = Append(@, top)]
              [] OTHER -> fail

\* ---- programs
\* The programs that are compiled and run, each described by a case: the
\* family it belongs to and the values it is built from.
a_ == VariableExpr("a")

\* { var a = inner; (a = new;) print a; }
ShadowBlock(case) ==
    BlockStmt(<<VarDeclStmt("a", Literal(case.inner))>>
              \o (IF case.assign
                  THEN <<ExpressionStmt(AssignExpr("a", Literal(case.new)))>>
                  ELSE <<>>)
              \o <<PrintStmt(a_)>>)

\* global:   var a = outer; { ... } print a; a;
\* block:    var a = "g"; { var b = 0; var a = outer; { ... } print a; } a;
\* function: def f(a) { { ... } print a; return a; } f(outer);
ScopeProgram(case) ==
    CASE case.kind = "global" ->
            Program(<<VarDeclStmt("a", Literal(case.outer)), ShadowBlock(case),
                      PrintStmt(a_), ExpressionStmt(a_)>>)
      [] case.kind = "block" ->
            Program(<<VarDeclStmt("a", Literal(PyStr("g"))),
                      BlockStmt(<<VarDeclStmt("b", Literal(PyInt(0))),
                                  VarDeclStmt("a", Literal(case.outer)),
                                  ShadowBlock(case), PrintStmt(a_)>>),
                      ExpressionStmt(a_)>>)
      [] case.kind = "function" ->
            Program(<<DefStmt("f", <<"a">>,
                              BlockStmt(<<ShadowBlock(case), PrintStmt(a_),
                                          ReturnStmt(a_)>>)),
                      ExpressionStmt(CallExpr(VariableExpr("f"),
                                              <<Literal(case.outer)>>))>>)

ScopeCases ==
    [family : {"scope"}, kind : {"global", "block", "function"}, assign : BOOLEAN,
     outer : {PyStr("global"), PyInt(1)}, inner : {PyStr("local"), PyInt(2)},
     new : {PyStr("changed"), None}]

\* left op (x = right)
LogicalOf(case) ==
    LogicalExpr(Literal(case.left), case.op,
                Grouping(AssignExpr("x", Literal(case.right))))

\* the statements before the one with the logical expression
LogicPrefix(case) ==
    IF case.form = "local" THEN <<VarDeclStmt("l", Literal(PyInt(5))),
                                  VarDeclStmt("x", Absent)>>
    ELSE <<VarDeclStmt("x", Absent)>>

\* last:  var x; left op (x = right);
\* print: var x; print left op (x = right); x;
\* local: { var l = 5; var x; print left op (x = right); print x; }
LogicProgram(case) ==
    CASE case.form = "last" ->
            Program(LogicPrefix(case) \o <<ExpressionStmt(LogicalOf(case))>>)
      [] case.form = "print" ->
            Program(LogicPrefix(case)
                    \o <<PrintStmt(LogicalOf(case)), ExpressionStmt(VariableExpr("x"))>>)
      [] case.form = "local" ->
            Program(<<BlockStmt(LogicPrefix(case)
                                \o <<PrintStmt(LogicalOf(case)),
                                     PrintStmt(VariableExpr("x"))>>)>>)

LogicValues == {None, False, True, PyInt(1), PyStr("s")}

LogicCases ==
    [family : {"logic"}, form : {"last", "print", "local"}, op : {"AND", "OR"},
     left : LogicValues, right : LogicValues]

MaxLoops == 2

\* the last statement of the script, by kind
LastStatements(case) ==
    CASE case.last = "empty" -> <<>>
      [] case.last = "expression" -> <<ExpressionStmt(Literal(case.value))>>
      [] case.last = "var" -> <<VarDeclStmt("a", Literal(case.value))>>
      [] case.last = "print" -> <<PrintStmt(Literal(case.value))>>
      [] case.last = "if" ->
            <<IfStmt(Literal(case.value), ExpressionStmt(Literal(PyInt(1))), Absent)>>
      [] case.last = "if_else" ->
            <<IfStmt(Literal(case.value), ExpressionStmt(Literal(PyInt(1))),
                     PrintStmt(Literal(PyInt(2))))>>
      [] case.last = "while" ->
            <<VarDeclStmt("i", Literal(PyInt(0))),
              WhileStmt(Binary(VariableExpr("i"), "LESS", Literal(PyInt(case.loops))),
                        ExpressionStmt(AssignExpr("i", Binary(VariableExpr("i"), "PLUS",
                                                             Literal(PyInt(1))))))>>
      [] case.last = "block" ->
            <<BlockStmt(<<VarDeclStmt("t", Literal(case.value)),
                          ExpressionStmt(VariableExpr("t"))>>)>>
      [] case.last = "def" ->
            <<DefStmt("f", <<>>, BlockStmt(<<ReturnStmt(Literal(case.value))>>))>>

\* (7;) and the last statement
ReturnProgram(case) ==
    Program((IF case.before THEN <<ExpressionStmt(Literal(PyInt(7)))>> ELSE <<>>)
            \o LastStatements(case))

ReturnCases ==
    [family : {"return"},
     last : {"empty", "expression", "var", "print", "if", "if_else", "while",
             "block", "def"},
     before : BOOLEAN, value : {None, True, False, PyInt(3), PyStr("v")},
     loops : 0..MaxLoops]

MaxDepth == 2

\* def f(n) { if (n < 1) return 0; return f(n - 1) + 1; }
Recursive ==
    DefStmt("f", <<"n">>,
            BlockStmt(<<IfStmt(Binary(VariableExpr("n"), "LESS", Literal(PyInt(1))),
                               ReturnStmt(Literal(PyInt(0))), Absent),
                        ReturnStmt(Binary(CallExpr(VariableExpr("f"),
                                                   <<Binary(VariableExpr("n"), "MINUS",
                                                            Literal(PyInt(1)))>>),
                                          "PLUS", Literal(PyInt(1))))>>))

\* global:   def f ...; f(depth);
\* block:    { def f ...; print f(depth); }
\* function: def g() { def f ...; return f(depth); } g();
RecursionProgram(case) ==
    LET call == CallExpr(VariableExpr("f"), <<Literal(PyInt(case.depth))>>)
    IN CASE case.where = "global" -> Program(<<Recursive, ExpressionStmt(call)>>)
         [] case.where = "block" ->
               Program(<<BlockStmt(<<Recursive, PrintStmt(call)>>)>>)
         [] case.where = "function" ->
               Program(<<DefStmt("g", <<>>, BlockStmt(<<Recursive, ReturnStmt(call)>>)),
                         ExpressionStmt(CallExpr(VariableExpr("g"), <<>>))>>)

RecursionCases ==
    [family : {"recursion"}, where : {"global", "block", "function"},
     depth : 0..MaxDepth]

\* programs that declare a name twice
Var(name, n) == VarDeclStmt(name, Literal(PyInt(n)))

PrintVar(name) == PrintStmt(VariableExpr(name))

CallStmt(name, arguments) ==
    ExpressionStmt(CallExpr(VariableExpr(name), arguments))

\* the same name twice among the locals of one scope of one function
Redeclarations ==
    {"var_var", "var_other_var", "var_def", "def_var", "inner_var_var",
     "param_param", "param_var"}

\* the same name in an enclosing or in an earlier scope, in another function,
\* or among the globals
Shadowings ==
    {"enclosing", "siblings", "global_local", "global_global", "def_def_global",
     "param_block", "other_function"}

DuplicateProgram(case) ==
    CASE case.kind = "var_var" ->
            \* { var a = 1; var a = 2; }
            Program(<<BlockStmt(<<Var("a", 1), Var("a", 2)>>)>>)
      [] case.kind = "var_other_var" ->
            \* { var a = 1; var b = 2; var a = 3; }
            Program(<<BlockStmt(<<Var("a", 1), Var("b", 2), Var("a", 3)>>)>>)
      [] case.kind = "var_def" ->
            \* { var a = 1; def a() { } }
            Program(<<BlockStmt(<<Var("a", 1), DefStmt("a", <<>>, BlockStmt(<<>>))>>)>>)
      [] case.kind = "def_var" ->
            \* { def a() { } var a = 1; }
            Program(<<BlockStmt(<<DefStmt("a", <<>>, BlockStmt(<<>>)), Var("a", 1)>>)>>)
      [] case.kind = "inner_var_var" ->
            \* { var a = 1; { var b = 2; var b = 3; } }
            Program(<<BlockStmt(<<Var("a", 1),
                                  BlockStmt(<<Var("b", 2), Var("b", 3)>>)>>)>>)
      [] case.kind = "param_param" ->
            \* def f(a, a) { }
            Program(<<DefStmt("f", <<"a", "a">>, BlockStmt(<<>>))>>)
      [] case.kind = "param_var" ->
            \* def f(a) { var a = 1; }
            Program(<<DefStmt("f", <<"a">>, BlockStmt(<<Var("a", 1)>>))>>)
      [] case.kind = "enclosing" ->
            \* { var a = 1; { var a = 2; print a; } print a; }
            Program(<<BlockStmt(<<Var("a", 1),
                                  BlockStmt(<<Var("a", 2), PrintVar("a")>>),
                                  PrintVar("a")>>)>>)
      [] case.kind = "siblings" ->
            \* { { var a = 2; print a; } { var a = 1; print a; } }
            Program(<<BlockStmt(<<BlockStmt(<<Var("a", 2), PrintVar("a")>>),
                                  BlockStmt(<<Var("a", 1), PrintVar("a")>>)>>)>>)
      [] case.kind = "global_local" ->
            \* var a = 1; { var a = 2; print a; } print a;
            Program(<<Var("a", 1), BlockStmt(<<Var("a", 2), PrintVar("a")>>),
                      PrintVar("a")>>)
      [] case.kind = "global_global" ->
            \* var a = 2; print a; var a = 1; print a;
            Program(<<Var("a", 2), PrintVar("a"), Var("a", 1), PrintVar("a")>>)
      [] case.kind = "def_def_global" ->
            \* def a() { print 2; } a(); def a() { print 1; } a();
            Program(<<DefStmt("a", <<>>, BlockStmt(<<PrintStmt(Literal(PyInt(2)))>>)),
                      CallStmt("a", <<>>),
                      DefStmt("a", <<>>, BlockStmt(<<PrintStmt(Literal(PyInt(1)))>>)),
                      CallStmt("a", <<>>)>>)
      [] case.kind = "param_block" ->
            \* def f(a) { { var a = 2; print a; } print a; } f(1);
            Program(<<DefStmt("f", <<"a">>,
                              BlockStmt(<<BlockStmt(<<Var("a", 2), PrintVar("a")>>),
                                          PrintVar("a")>>)),
                      CallStmt("f", <<Literal(PyInt(1))>>)>>)
      [] case.kind = "other_function" ->
            \* { var a = 1; def f() { var a = 2; print a; } f(); print a; }
            Program(<<BlockStmt(<<Var("a", 1),
                                  DefStmt("f", <<>>,
                                          BlockStmt(<<Var("a", 2), PrintVar("a")>>)),
                                  CallStmt("f", <<>>),
                                  PrintVar("a")>>)>>)

DuplicateCases == [family : {"duplicate"}, kind : Redeclarations \cup Shadowings]

\* programs with an if or a while statement among locals or globals
l_ == VariableExpr("l")

Add(name, expr) ==
    ExpressionStmt(AssignExpr(name, Binary(VariableExpr(name), "PLUS", expr)))

\* if:       if (cond) { var t = 1; var u = 2; print t; }
\* if_else:  if (cond) { var t = 1; print t; } else { var t = 2; var u = 3; print u; }
\* while:    while (l < loops) { var t = 1; l = l + t; }
\* while_if: while (l < loops) if (cond) { var t = 1; l = l + t; } else l = l + 2;
FlowStatement(case) ==
    LET stepping == BlockStmt(<<Var("t", 1), Add("l", VariableExpr("t"))>>)
        more == Binary(l_, "LESS", Literal(PyInt(case.loops)))
    IN CASE case.kind = "if" ->
               IfStmt(Literal(case.cond),
                      BlockStmt(<<Var("t", 1), Var("u", 2), PrintVar("t")>>), Absent)
         [] case.kind = "if_else" ->
               IfStmt(Literal(case.cond),
                      BlockStmt(<<Var("t", 1), PrintVar("t")>>),
                      BlockStmt(<<Var("t", 2), Var("u", 3), PrintVar("u")>>))
         [] case.kind = "while" -> WhileStmt(more, stepping)
         [] case.kind = "while_if" ->
               WhileStmt(more, IfStmt(Literal(case.cond), stepping,
                                      Add("l", Literal(PyInt(2)))))

\* global:   var l = 0; S print l;
\* block:    { var k = 7; var l = 0; S print l; }
\* function: def f(l) { S print l; } f(0);
FlowProgram(case) ==
    LET S == FlowStatement(case)
    IN CASE case.where = "global" -> Program(<<Var("l", 0), S, PrintVar("l")>>)
         [] case.where = "block" ->
               Program(<<BlockStmt(<<Var("k", 7), Var("l", 0), S, PrintVar("l")>>)>>)
         [] case.where = "function" ->
               Program(<<DefStmt("f", <<"l">>, BlockStmt(<<S, PrintVar("l")>>)),
                         CallStmt("f", <<Literal(PyInt(0))>>)>>)

FlowCases ==
    [family : {"flow"}, kind : {"if", "if_else", "while", "while_if"},
     where : {"global", "block", "function"}, cond : LogicValues, loops : 0..MaxLoops]

\* an expression of nil, ! and == whose code has n bytes
RECURSIVE Sized(_)
Sized(n) ==
    IF n = 1 THEN Literal(None)
    ELSE IF n = 2 THEN Unary("BANG", Literal(None))
    ELSE Binary(Sized((n - 1) \div 2), "EQUAL_EQUAL", Sized(n - 1 - (n - 1) \div 2))

\* programs with one jump over the case's number of bytes:
\* then:  if (false) E;            the jump-if-false, over pop, E, pop and jump
\* else:  if (true) nil; else E;   the jump, over pop, E and pop
\* while: while (false) E;         the loop, back over itself, pop, E, pop,
\*                                 jump-if-false and false
JumpProgram(case) ==
    CASE case.kind = "then" ->
            Program(<<IfStmt(Literal(False), ExpressionStmt(Sized(case.jump - 5)), Absent)>>)
      [] case.kind = "else" ->
            Program(<<IfStmt(Literal(True), ExpressionStmt(Literal(None)),
                             ExpressionStmt(Sized(case.jump - 2)))>>)
      [] case.kind = "while" ->
            Program(<<WhileStmt(Literal(False), ExpressionStmt(Sized(case.jump - 9)))>>)

JumpCases ==
    [family : {"jump"}, kind : {"then", "else", "while"}, jump : {JUMP_MAX, JUMP_MAX + 1}]

ScriptCases ==
    ScopeCases \cup LogicCases \cup ReturnCases \cup RecursionCases
        \cup DuplicateCases \cup FlowCases \cup JumpCases

ProgramOf(case) ==
    CASE case.family = "scope" -> ScopeProgram(case)
      [] case.family = "logic" -> LogicProgram(case)
      [] case.family = "return" -> ReturnProgram(case)
      [] case.family = "recursion" -> RecursionProgram(case)
      [] case.family = "duplicate" -> DuplicateProgram(case)
      [] case.family = "flow" -> FlowProgram(case)
      [] case.family = "jump" -> JumpProgram(case)

\* ---- compiling and running a program
MaxSteps == 90

InitScript ==
    /\ InitNet
    /\ battle = <<>>
    /\ history = <<>>
    /\ \E case \in ScriptCases :
          vm = [phase |-> "program", case |-> case, program |-> ProgramOf(case)]

\* the compiler is given the program; the machine is set up to run the
\* function it returns, or the outcome is compile-error
Compile ==
    /\ vm.phase = "program"
    /\ \E r \in {compile(vm.program)} :
          vm' = [case |-> vm.case]
                @@ (IF r.raised
                    THEN Halt(Machine(vm.program, r.function), "compile-error", None)
                    ELSE Machine(vm.program, r.function))
    /\ UNCHANGED <<conn, inbox, pc, clock, ticks, out, ev, enqueued, lost, stream,
                   handed, got, battle, history>>

\* the machine executes one instruction
Step ==
    /\ vm.phase = "run"
    /\ Len(vm.trace) < MaxSteps
    /\ vm' = step(vm)
    /\ UNCHANGED <<conn, inbox, pc, clock, ticks, out, ev, enqueued, lost, stream,
                   handed, got, battle, history>>

NextScript == Compile \/ Step

SpecScript == InitScript /\ [][NextScript]_vars

\* ------------------------------------------------------------------ claims
\* the step being taken is operation op of connection p
Doing(op, p) == ev'.op = op /\ ev'.p = p

\* the datagram is an application packet the connection accepts: it is
\* CONNECTED, the datagram is no handshake literal, comes from the configured
\* remote, holds a header, and carries the protocol id
ValidApp(c, data, addr) ==
    /\ c.state = "CONNECTED"
    /\ data \notin {HANDSHAKE_CHALLENGE, HANDSHAKE_RESPONSE}
    /\ addr = c.remote_address
    /\ Len(data) >= 12
    /\ FromBE(SubSeq(data, 1, 4)) = PROTOCOL_ID

\* C2 (ACK coverage): when a CONNECTED connection processes a valid application
\* packet with ack s and bitfield b, the unacked table afterwards is the table
\* before without the entry for s and without the entries for (s-1-i) mod 2^16
\* of the bits i set in b; every other entry stays in place, unchanged.
C2_AckCoverage ==
    [][\A p \in Peers :
        (Doing("recv", p) /\ ValidApp(conn[p], ev'.data, ev'.addr)) =>
            LET s == FromBE(SubSeq(ev'.data, 9, 10))
                b == FromBE(SubSeq(ev'.data, 11, 12))
                covered == {s} \cup {(s - 1 - i) % 65536 :
                                        i \in {j \in 0..15 : (b \div Pow(2, j)) % 2 = 1}}
                Kept(e) == e.seq \notin covered
            IN conn'[p].sent_packets = SelectSeq2(conn[p].sent_packets, Kept)]_vars

\* a packet with ack 1 and bit 0 set has removed the entries 1 and 0
C2_Witness ==
    /\ ev.op = "recv"
    /\ ev.acked = {0, 1}
    /\ FromBE(SubSeq(ev.data, 11, 12)) = 1

\* C5 (handshake adoption): a DISCONNECTED connection that reads a challenge
\* from any address adopts the address as its remote, becomes CONNECTED, has
\* next-sequence 0 and latest-remote-sequence -1 (none received), and sends
\* the handshake response, and nothing else, to that address.
C5_Adoption ==
    [][\A p \in Peers :
        (Doing("recv", p) /\ ev'.data = HANDSHAKE_CHALLENGE
            /\ conn[p].state = "DISCONNECTED") =>
            /\ conn'[p].remote_address = ev'.addr
            /\ conn'[p].state = "CONNECTED"
            /\ conn'[p].sequence_number = 0
            /\ conn'[p].remote_sequence_number = -1
            /\ out' = <<[dst |-> ev'.addr, data |-> HANDSHAKE_RESPONSE]>>]_vars

\* a connection that had sent before and fell back to DISCONNECTED has adopted
\* host Y, which was not its configured remote
C5_Witness ==
    /\ ev.op = "recv" /\ ev.data = HANDSHAKE_CHALLENGE /\ ev.st = "DISCONNECTED"
    /\ ev.addr = "Y"
    /\ conn["A"].state = "CONNECTED" /\ conn["A"].remote_address = "Y"
    /\ conn["A"].sent_packets # <<>> /\ conn["A"].sequence_number = 0

\* C6 (handshake completion): a handshake response read in CONNECTING from the
\* configured remote makes the connection CONNECTED (and stamps the receive
\* time); read in any other state or from any other address it changes no
\* field of the connection; no response is ever answered.
C6_Completion ==
    [][\A p \in Peers :
        (Doing("recv", p) /\ ev'.data = HANDSHAKE_RESPONSE) =>
            /\ out' = <<>>
            /\ IF conn[p].state = "CONNECTING" /\ ev'.addr = conn[p].remote_address
               THEN conn'[p] = [conn[p] EXCEPT !.state = "CONNECTED",
                                               !.last_receive_time = clock]
               ELSE conn'[p] = conn[p]]_vars

\* a response from host Y was read in CONNECTING and the connection stays
\* CONNECTING
C6_Witness ==
    /\ ev.op = "recv" /\ ev.data = HANDSHAKE_RESPONSE /\ ev.addr = "Y"
    /\ ev.st = "CONNECTING" /\ conn["A"].state = "CONNECTING"

\* the entry is older than max(100 ms, 1.5 x rtt), rtt being num / 10^exp ms
Aged(c, e) ==
    /\ clock - e.time > 100
    /\ 2 * (clock - e.time) * Pow(10, c.rtt.exp) > 3 * c.rtt.num

\* C3 (retransmit trigger): the resend step that ends an update() of a
\* CONNECTED connection sends, in table order and to the remote, the recorded
\* bytes of exactly the entries older than max(100 ms, 1.5 x rtt), and sets
\* their send-time to now; the other entries are not sent and not changed, and
\* no count of earlier resends enters the decision.  A connection that is not
\* CONNECTED resends nothing.
C3_Retransmit ==
    [][\A p \in Peers :
        Doing("resend", p) =>
            LET c == conn[p]
                IsAged(e) == Aged(c, e)
                aged == SelectSeq2(c.sent_packets, IsAged)
            IN IF c.state # "CONNECTED" THEN conn'[p] = c /\ out' = <<>>
               ELSE /\ out' = [i \in DOMAIN aged |->
                                 [dst |-> c.remote_address, data |-> aged[i].data]]
                    /\ conn'[p] = [c EXCEPT !.sent_packets =
                           [i \in DOMAIN c.sent_packets |->
                               IF Aged(c, c.sent_packets[i])
                               THEN [c.sent_packets[i] EXCEPT !.time = clock]
                               ELSE c.sent_packets[i]]]]_vars

\* of two unacked entries the older one was resent and stamped, and the one
\* sent just now was not
C3_Witness ==
    /\ ev.op = "resend" /\ clock = 400
    /\ Len(conn["A"].sent_packets) = 2
    /\ out = <<[dst |-> "X", data |-> conn["A"].sent_packets[1].data]>>
    /\ conn["A"].sent_packets[1].time = 400

\* C9 (idle timeout): a CONNECTED connection becomes DISCONNECTED at an update()
\* call exactly when now minus its last-receive time exceeds the timeout, and
\* in no other step; the last-receive time is set to now by a handshake
\* adoption, a handshake completion and every application packet from the
\* configured remote with the protocol id, and by nothing else.
C9_IdleTimeout ==
    [][\A p \in Peers :
        /\ (Doing("update", p) /\ conn[p].state = "CONNECTED") =>
              (conn'[p].state = "DISCONNECTED" <=>
                  clock - conn[p].last_receive_time > 5000)
        /\ (conn[p].state = "CONNECTED" /\ conn'[p].state # "CONNECTED") =>
              Doing("update", p)
        /\ conn'[p].last_receive_time =
              IF Doing("recv", p)
                 /\ \/ ev'.data = HANDSHAKE_CHALLENGE /\ conn[p].state = "DISCONNECTED"
                    \/ ev'.data = HANDSHAKE_RESPONSE /\ conn[p].state = "CONNECTING"
                          /\ ev'.addr = conn[p].remote_address
                    \/ ValidApp(conn[p], ev'.data, ev'.addr)
              THEN clock ELSE conn[p].last_receive_time]_vars

\* an update() has timed out a connection whose last datagram was read at 200
C9_Witness ==
    /\ ev.op = "update" /\ ev.st = "CONNECTED"
    /\ conn["A"].state = "DISCONNECTED" /\ conn["A"].last_receive_time = 200

\* C10 (send only in CONNECTED): send() and send_ack_only() called in
\* DISCONNECTED or CONNECTING transmit nothing and change no field;
\* send_ack_only() never changes the unacked table or the sequence counter; and
\* a sequence enters the unacked table only in a send() called in CONNECTED.
C10_SendConnected ==
    [][\A p \in Peers :
        /\ ((Doing("send", p) \/ Doing("send_ack_only", p))
               /\ conn[p].state # "CONNECTED") => (out' = <<>> /\ conn'[p] = conn[p])
        /\ Doing("send_ack_only", p) =>
              /\ conn'[p].sent_packets = conn[p].sent_packets
              /\ conn'[p].sequence_number = conn[p].sequence_number
        /\ ~(SentSeqs(conn'[p]) \subseteq SentSeqs(conn[p])) =>
              (Doing("send", p) /\ conn[p].state = "CONNECTED")]_vars

\* send() was called in CONNECTING: nothing was transmitted or recorded
C10_Witness ==
    /\ ev.op = "send" /\ ev.st = "CONNECTING"
    /\ out = <<>> /\ conn["A"].sent_packets = <<>>

\* the step reads an application packet that is accepted and is not the
\* ack-only form (sequence 0, empty payload)
ReadsData(p) ==
    /\ Doing("recv", p)
    /\ ValidApp(conn[p], ev'.data, ev'.addr)
    /\ ~(FromBE(SubSeq(ev'.data, 5, 8)) = 0 /\ Len(ev'.data) = 12)

\* the last n elements of q
LastN(q, n) == IF Len(q) <= n THEN q ELSE SubSeq(q, Len(q) - n + 1, Len(q))

\* C1 as stated (idempotent delivery): a datagram of the stream, however often
\* and in whatever interleaving it is delivered, is enqueued for receive()
\* exactly once: once it has been read its payload is in the log of enqueued
\* payloads, and no sequence is in that log twice.
C1_Original ==
    \A p \in Peers :
        /\ \A i, j \in DOMAIN enqueued[p] :
              enqueued[p][i].seq = enqueued[p][j].seq => i = j
        /\ (ev.op = "recv" /\ ev.p = p /\ ev.st = "CONNECTED" /\ Len(ev.data) > 12) =>
              \E i \in DOMAIN enqueued[p] : enqueued[p][i].seq = FromBE(SubSeq(ev.data, 5, 8))

\* C1 as amended: the dedup window is the last 32 accepted sequences.  A data
\* packet whose sequence is in the window is dropped: nothing is enqueued and
\* the window stays.  One whose sequence is not in the window is accepted: the
\* sequence is appended to the window, the oldest of 32 leaving it, and a
\* well-formed non-empty payload is enqueued once.  The window changes in no
\* other step, the payload queue otherwise only when receive() hands it over
\* and empties it.  So two enqueues of the same sequence are separated by at
\* least 32 accepted packets with other sequences.
C1_Window ==
    /\ [][\A p \in Peers :
            LET c == conn[p]
                seq == FromBE(SubSeq(ev'.data, 5, 8))
                payload == SubSeq(ev'.data, 13, Len(ev'.data))
            IN IF ReadsData(p) /\ ~InSeq(seq, c.received_sequences)
               THEN /\ conn'[p].received_sequences =
                          LastN(Append(c.received_sequences, seq), 32)
                    /\ conn'[p].received_payloads =
                          IF payload # <<>> /\ ~deserialize(payload).raised
                          THEN Append(c.received_payloads, deserialize(payload).value)
                          ELSE c.received_payloads
               ELSE /\ conn'[p].received_sequences = c.received_sequences
                    /\ conn'[p].received_payloads =
                          IF Doing("receive", p) THEN <<>> ELSE c.received_payloads]_vars
    /\ [](\A p \in Peers : \A i, j \in DOMAIN enqueued[p] :
            (i < j /\ enqueued[p][i].seq = enqueued[p][j].seq) => j - i > 32)

\* sequence 0 is delivered again while 32 later sequences fill the window
\* behind it, and is dropped: it has been enqueued once
C1_Witness ==
    /\ ev.op = "recv" /\ ev.data = StreamPacket(0)
    /\ Len(conn["A"].received_sequences) = 32
    /\ conn["A"].received_sequences[1] = 0
    /\ Len(enqueued["A"]) = 32

\* the steps of connection p
OfConn(p) == ev'.p = p /\ ev'.op # "none"

\* C8 (handshake timers): connect() of a DISCONNECTED connection sends the
\* challenge at once and enters CONNECTING.  An update() of a CONNECTING
\* connection, more than 5.0 s after connect(), makes it DISCONNECTED and
\* sends nothing; otherwise it stays CONNECTING and resends the challenge
\* exactly when more than 1.0 s has passed since the last challenge.  A
\* challenge is sent by no other step.  While update() keeps being called
\* and time passes, a CONNECTING connection does not stay CONNECTING.
C8_HandshakeTimers ==
    /\ [][\A p \in Peers :
            LET c == conn[p]
                challenge == <<Dgram(c.remote_address, HANDSHAKE_CHALLENGE)>>
            IN /\ (Doing("connect", p) /\ c.state = "DISCONNECTED") =>
                    /\ conn'[p].state = "CONNECTING"
                    /\ out' = challenge
                    /\ conn'[p].handshake_start_time = clock
                    /\ conn'[p].last_handshake_send_time = clock
               /\ (Doing("update", p) /\ c.state = "CONNECTING") =>
                    IF clock - c.handshake_start_time > 5000
                    THEN conn'[p].state = "DISCONNECTED" /\ out' = <<>>
                    ELSE /\ conn'[p].state = "CONNECTING"
                         /\ conn'[p].handshake_start_time = c.handshake_start_time
                         /\ IF clock - c.last_handshake_send_time > 1000
                            THEN /\ out' = challenge
                                 /\ conn'[p].last_handshake_send_time = clock
                            ELSE /\ out' = <<>>
                                 /\ conn'[p].last_handshake_send_time =
                                        c.last_handshake_send_time
               /\ (OfConn(p) /\ \E i \in DOMAIN out' : out'[i].data = HANDSHAKE_CHALLENGE) =>
                    \/ Doing("connect", p) /\ c.state = "DISCONNECTED"
                    \/ Doing("update", p) /\ c.state = "CONNECTING"]_vars
    /\ \A p \in Peers : (conn[p].state = "CONNECTING") ~> (conn[p].state # "CONNECTING")

\* an update() ends a handshake that was never answered, after a challenge
\* was resent
C8_Witness ==
    /\ ev.op = "update" /\ ev.p = "A" /\ ev.st = "CONNECTING"
    /\ conn["A"].state = "DISCONNECTED"
    /\ conn["A"].last_handshake_send_time > conn["A"].handshake_start_time
    /\ out = <<>>

Both(st) == \A p \in Peers : conn[p].state = st

\* C7 (handshake symmetry): with both connections targeting each other and no
\* datagram lost (no socket buffer ever full), a CONNECTING connection answers
\* the other's challenge with a response and stays CONNECTING, and becomes
\* CONNECTED when it reads the other's response; no connection goes back to
\* DISCONNECTED; once the datagrams in flight have been read, connections that
\* have both left DISCONNECTED are both CONNECTED, no challenge having to be
\* resent; and two CONNECTING connections lead to two CONNECTED ones.
C7_Symmetry ==
    /\ [](\A p \in Peers : Len(inbox[p]) < MaxInbox)
    /\ [][\A p \in Peers :
            /\ (Doing("recv", p) /\ conn[p].state = "CONNECTING"
                    /\ ev'.data = HANDSHAKE_CHALLENGE) =>
                  /\ out' = <<Dgram(ev'.addr, HANDSHAKE_RESPONSE)>>
                  /\ conn'[p].state = "CONNECTING"
            /\ (Doing("recv", p) /\ conn[p].state = "CONNECTING"
                    /\ ev'.data = HANDSHAKE_RESPONSE) =>
                  conn'[p].state = "CONNECTED"
            /\ conn[p].state # "DISCONNECTED" => conn'[p].state # "DISCONNECTED"]_vars
    /\ []((\A p \in Peers : conn[p].state # "DISCONNECTED" /\ inbox[p] = <<>>)
            => Both("CONNECTED"))
    /\ Both("CONNECTING") ~> Both("CONNECTED")

\* both called connect() before reading anything, and the last of the two
\* responses has just been read
C7_Witness ==
    /\ Both("CONNECTED")
    /\ \A p \in Peers : conn[p].handshake_start_time = 0 /\ conn[p].last_receive_time = 0
                        /\ conn[p].last_handshake_send_time = 0
    /\ clock = 0
    /\ ev.op = "recv" /\ ev.st = "CONNECTING" /\ ev.data = HANDSHAKE_RESPONSE
    /\ \A p \in Peers : inbox[p] = <<>>

\* how often sequence k is in the log of payloads enqueued at p
TimesEnqueued(p, k) ==
    Cardinality({i \in DOMAIN enqueued[p] : enqueued[p][i].seq = k})

\* C4 as stated (eventual exactly-once delivery under loss): a payload A has
\* sent while CONNECTED, with sequence k, is eventually enqueued at B, and is
\* never enqueued there twice; the network drops finitely many datagrams, both
\* connections keep being polled and stay CONNECTED.
C4_Original ==
    /\ \A k \in 0..(MaxSeq - 1) :
          (conn["A"].sequence_number > k) ~> (TimesEnqueued("B", k) = 1)
    /\ [](\A k \in 0..(MaxSeq - 1) : TimesEnqueued("B", k) <= 1)

\* the payloads of a log of [seq, value] entries
Values(log) == [i \in DOMAIN log |-> log[i].value]

C12_Rejected ==
    [][\A p \in Peers :
          (/\ Doing("recv", p)
           /\ ev'.data \notin {HANDSHAKE_CHALLENGE, HANDSHAKE_RESPONSE}
           /\ \/ Len(ev'.data) < 12
              \/ FromBE(SubSeq(ev'.data, 1, 4)) # PROTOCOL_ID
              \/ ev'.addr # conn[p].remote_address)
          => (conn'[p] = conn[p] /\ out' = <<>>)]_vars

\* a CONNECTED connection with an unacked packet read a well-formed packet of a
\* foreign host, later than the last datagram it accepted
C12_Witness ==
    /\ ev.op = "recv" /\ ev.p = "A" /\ ev.st = "CONNECTED" /\ ev.addr = "Y"
    /\ Len(ev.data) > 12
    /\ conn["A"].sent_packets # <<>>
    /\ clock > conn["A"].last_receive_time

\* C13 (half-window sequence comparison): is_sequence_greater(s1, s2) is true
\* exactly when s1 > s2 and s1 - s2 <= 32768, or s1 < s2 and s2 - s1 > 32768;
\* is_sequence_greater(1, 65534) is true and is_sequence_greater(32800, 1) is
\* false.
C13_HalfWindow ==
    ev.op = "is_sequence_greater" =>
        /\ ev.ret = (\/ (ev.s1 > ev.s2 /\ ev.s1 - ev.s2 <= 32768)
                     \/ (ev.s1 < ev.s2 /\ ev.s2 - ev.s1 > 32768))
        /\ (ev.s1 = 1 /\ ev.s2 = 65534) => ev.ret
        /\ (ev.s1 = 32800 /\ ev.s2 = 1) => ~ev.ret
        /\ (ev.s1 = 32769 /\ ev.s2 = 1) => ev.ret
        /\ (ev.s1 = 0 /\ ev.s2 = 32768) => ~ev.ret
        /\ (ev.s1 = 32768 /\ ev.s2 = 0) => ev.ret

\* a smaller number compared as the greater one, across the wrap
C13_Witness ==
    ev.op = "is_sequence_greater" /\ ev.s1 = 1 /\ ev.s2 = 65534 /\ ev.ret

\* bit i of a 16-bit word
Bit(bits, i) == (bits \div Pow(2, i)) % 2 = 1

\* the step reads an application packet that p appends to its dedup window
Appends(p) ==
    /\ ReadsData(p)
    /\ conn'[p].received_sequences # conn[p].received_sequences

\* C14 (ack-bitfield invariant): the incoming ack bitfield is always within
\* 0..65535, and whenever bit i (0..15) is set the application packet with
\* sequence (latest remote sequence - 1 - i) mod 2^16 has been received from
\* the current remote.
C14_Original ==
    \A p \in Peers :
        /\ conn[p].ack_bitfield \in 0..65535
        /\ conn[p].remote_sequence_number # -1 =>
              \A i \in 0..15 :
                  Bit(conn[p].ack_bitfield, i)
                      => ((conn[p].remote_sequence_number - 1 - i) % SEQ_MOD) \in got[p]

\* C14, the part the code keeps: the bitfield is always within 0..65535; a
\* newer sequence with delta <= 16 shifts it left by delta and sets the bit
\* of the previous latest, with delta > 16 resets it to 0, an older sequence
\* within 16 of the latest sets its bit, and every other step leaves it alone.
C14_Update ==
    /\ [](\A p \in Peers : conn[p].ack_bitfield \in 0..65535)
    /\ [][\A p \in Peers :
            LET c == conn[p]
                seq == FromBE(SubSeq(ev'.data, 5, 8))
                latest == c.remote_sequence_number
                up == (seq - latest) % SEQ_MOD
                down == (latest - seq) % SEQ_MOD
            IN conn'[p].ack_bitfield =
                 IF ~Appends(p) \/ latest = -1 THEN c.ack_bitfield
                 ELSE IF is_sequence_greater(seq, latest)
                 THEN IF up <= 16
                      THEN (c.ack_bitfield * Pow(2, up) + Pow(2, up - 1)) % 65536
                      ELSE 0
                 ELSE IF down \in 1..16 THEN SetBit(c.ack_bitfield, down - 1)
                 ELSE c.ack_bitfield]_vars

\* the events the step appended to the queue of battle b
NewEvents(b) ==
    SubSeq(battle'[b].queue, Len(battle[b].queue) + 1, Len(battle'[b].queue))

\* the action map the step submitted to battle b
Submitted(b) == history'[battle'[b].at].actions_map

\* the payloads of the actions of a map, in the order of iteration of the map
\* and of its lists
InMapOrder(actions_map) == requests(actions_map)

Ids(seq) == [i \in DOMAIN seq |-> seq[i].id]

\* the dequeues recorded for a battle, in order
Pops(B) == SelectSeq(B.trace, LAMBDA t : t.op = "popleft")

\* the handlers recorded as called with event id, in order
Called(B, id) ==
    LET calls == SelectSeq(B.trace, LAMBDA t : t.op = "handler" /\ t.id = id)
    IN [i \in DOMAIN calls |-> calls[i].handler]

RECURSIVE Concat(_)
Concat(logs) == IF logs = <<>> THEN <<>> ELSE Head(logs) \o Concat(Tail(logs))

\* every event logged so far: the returned logs and the log of the
\* process_all that is running
Logged(B) == Concat(B.logs) \o (IF B.pc = "loop" THEN B.event_log ELSE <<>>)

\* the handlers registered for an event type, in registration order
Registered(B, event_type) ==
    LET table == get_event_handlers(B.ruleset)
    IN IF event_type \in DOMAIN table THEN table[event_type] ELSE <<>>

\* C16 (exactly-once dispatch): every event that was enqueued, by
\* submit_actions or by a handler, at the front or at the back, is either
\* still in the queue or was dequeued exactly once; it was appended to the log
\* in the step that dequeued it; each handler registered for its type was
\* called with it exactly once, in registration order, before the next
\* dequeue; an event whose type has no handler is logged all the same; each
\* returned log lists the events of its turn in the order they were
\* processed.
C16_ExactlyOnce ==
    /\ [](\A b \in Battles :
            LET B == battle[b]
                all == Ids(Pops(B)) \o Ids(B.queue)
                logged == Logged(B)
            IN /\ \A i, j \in DOMAIN all : all[i] = all[j] => i = j
               /\ {all[i] : i \in DOMAIN all} = 1..B.serial
               /\ Ids(logged) = Ids(Pops(B))
               /\ \A k \in DOMAIN B.logs :
                     Ids(B.logs[k])
                        = Ids(SelectSeq(B.trace, LAMBDA t : t.op = "popleft"
                                                             /\ t.turn_number = k - 1))
               /\ \A i \in DOMAIN logged :
                     Called(B, logged[i].id)
                         \o (IF B.pc = "loop" /\ B.event.id = logged[i].id
                             THEN B.todo ELSE <<>>)
                        = Registered(B, logged[i].event_type)
               /\ \A i \in DOMAIN B.trace :
                     B.trace[i].op = "handler" =>
                        /\ i > 1
                        /\ B.trace[i - 1].id = B.trace[i].id)
    /\ [][\A b \in Battles :
            /\ Doing("popleft", b) =>
                  /\ battle'[b].queue = Tail(battle[b].queue)
                  /\ battle'[b].event_log = Append(battle[b].event_log,
                                                   Head(battle[b].queue))
            /\ ~Doing("popleft", b) =>
                  /\ Len(battle'[b].queue) >= Len(battle[b].queue)
                  /\ battle'[b].event_log \in {battle[b].event_log, <<>>}]_vars

\* a turn of the ruleset with two handlers for ACTION_REQUEST has returned:
\* both were called with the first event, in registration order, and the log
\* holds an event of a type no handler is registered for, added at the front
C16_Witness ==
    LET B == battle["b1"]
    IN /\ B.ruleset = "ReactiveRuleset"
       /\ ev.op = "return"
       /\ Len(B.logs) = 1
       /\ Len(B.logs[1]) >= 5
       /\ B.logs[1][1].event_type = "ACTION_REQUEST"
       /\ Called(B, B.logs[1][1].id) = <<"on_request", "on_request_again">>
       /\ B.logs[1][2].event_type = "NOTE"
       /\ B.born[B.logs[1][2].id].to_front
       /\ Called(B, B.logs[1][2].id) = <<>>

\* where in the trace of a battle event id was dequeued, 0 if it was not
PopIndex(B, id) ==
    IF \E i \in DOMAIN B.trace : B.trace[i].op = "popleft" /\ B.trace[i].id = id
    THEN CHOOSE i \in DOMAIN B.trace : B.trace[i].op = "popleft" /\ B.trace[i].id = id
    ELSE 0

\* C17 (reaction chains): an event F that a handler added at the front of the
\* queue while event E was being processed is dequeued only after every
\* handler registered for E has run, and before every event that was waiting
\* in the queue when E was dequeued; of two events added at the front during
\* the same E, the one added later is dequeued first.
C17_ReactionChains ==
    \A b \in Battles :
        LET B == battle[b]
            Front == {f \in 1..B.serial : B.born[f].to_front /\ B.born[f].parent # 0}
        IN \A f \in Front :
              LET e == B.born[f].parent
                  at_e == PopIndex(B, e)
                  at_f == PopIndex(B, f)
                  type_e == B.trace[at_e].event_type
              IN /\ at_e # 0
                 /\ at_f # 0 =>
                       /\ at_e < at_f
                       /\ Called(B, e) = Registered(B, type_e)
                       /\ \A i \in DOMAIN B.trace :
                             (B.trace[i].op = "handler" /\ B.trace[i].id = e) => i < at_f
                 /\ \A g \in B.trace[at_e].waiting :
                       PopIndex(B, g) # 0 => (at_f # 0 /\ at_f < PopIndex(B, g))
                 /\ \A f2 \in Front :
                       (B.born[f2].parent = e /\ f < f2 /\ at_f # 0)
                           => (PopIndex(B, f2) # 0 /\ PopIndex(B, f2) < at_f)

\* while a second HIT waited in the queue, the handler of the first HIT added
\* NOTE 1 and then NOTE 2 at the front: NOTE 2 and NOTE 1 were processed, in
\* this order, before the second HIT
C17_Witness ==
    LET B == battle["b1"]
        log == B.event_log
    IN /\ B.ruleset = "ReactiveRuleset"
       /\ Len(log) >= 8
       /\ \E i \in 1..Len(log) - 3 :
             /\ log[i].event_type = "HIT"
             /\ log[i + 1].event_type = "NOTE" /\ log[i + 1].payload.n = 2
             /\ log[i + 2].event_type = "NOTE" /\ log[i + 2].payload.n = 1
             /\ log[i + 3].event_type = "HIT"
             /\ B.born[log[i + 1].id] = [parent |-> log[i].id, to_front |-> TRUE]
             /\ log[i + 1].id > log[i + 2].id
             /\ log[i + 3].id \in B.trace[PopIndex(B, log[i].id)].waiting

\* C18 (quiescence): process_turn returns only when the event queue is
\* empty; with a ruleset whose handlers add finitely many events a
\* process_turn that was called returns; with a ruleset whose handlers keep
\* the queue non-empty it does not return.
C18_Quiescence ==
    /\ [][\A b \in Battles :
            Doing("return", b) =>
               /\ battle[b].queue = <<>> /\ battle[b].todo = <<>>
               /\ battle'[b].queue = <<>>
               /\ battle'[b].pc = "idle"]_vars
    /\ \A b \in Battles :
          (battle[b].ruleset \in FiniteRulesets /\ battle[b].pc = "loop")
              ~> (battle[b].pc = "idle" /\ battle[b].queue = <<>>)
    /\ [](\A b \in Battles :
            (/\ battle[b].ruleset = "EchoRuleset"
             /\ battle[b].pc = "loop"
             /\ battle[b].event_log # <<>>)
            => (battle[b].queue # <<>> \/ battle[b].todo # <<>>))

\* a turn in which handlers added events at both ends of the queue has
\* returned its log of ten events, the queue empty
C18_Witness ==
    LET B == battle["b1"]
    IN /\ ev.op = "return"
       /\ B.ruleset = "ReactiveRuleset"
       /\ B.pc = "idle"
       /\ B.queue = <<>>
       /\ Len(B.logs) = 1
       /\ Len(B.logs[1]) = 10

\* C19 (turn counter): state.turn_number is 0 at first and always equals the
\* number of process_turn calls that have returned; the return of
\* process_turn, with the queue drained, adds exactly 1 to it and no other
\* step changes it, submit_actions included; the handlers that run during
\* turn k find turn_number = k - 1.
C19_TurnCounter ==
    /\ [](\A b \in Battles :
            LET B == battle[b]
            IN /\ B.turn_number = Len(B.logs)
               /\ B.turn_number
                    = Cardinality({i \in 1..B.at : history[i].call = "process_turn"})
                        - (IF B.pc = "loop" THEN 1 ELSE 0)
               /\ \A i \in DOMAIN B.trace :
                     /\ \A k \in DOMAIN B.logs :
                           (\E n \in DOMAIN B.logs[k] : B.logs[k][n].id = B.trace[i].id)
                               => B.trace[i].turn_number = k - 1
                     /\ (B.pc = "loop"
                         /\ \E n \in DOMAIN B.event_log : B.event_log[n].id = B.trace[i].id)
                           => B.trace[i].turn_number = Len(B.logs))
    /\ [][\A b \in Battles :
            battle'[b].turn_number =
               IF Doing("return", b) THEN battle[b].turn_number + 1
               ELSE battle[b].turn_number]_vars

\* the second process_turn has returned; its handlers ran with turn_number 1
C19_Witness ==
    LET B == battle["b1"]
    IN /\ ev.op = "return"
       /\ B.turn_number = 2
       /\ Len(B.logs[2]) >= 2
       /\ \E i \in DOMAIN B.trace :
             /\ B.trace[i].op = "handler"
             /\ B.trace[i].id = B.logs[2][1].id
             /\ B.trace[i].turn_number = 1

\* a log as a client compares it: the types and payloads of its events
Strip(log) ==
    [i \in DOMAIN log |-> [event_type |-> log[i].event_type, payload |-> log[i].payload]]

Actives(team) == Cardinality({i \in DOMAIN team : team[i].is_active})

\* C21 (construction validates the active flag): constructing a Battle
\* succeeds only if every team has exactly one combatant whose active flag is
\* set; with a team that has none or more than one the construction fails
\* and leaves no Battle object and no state.
C21_Original ==
    ev.op = "Battle" =>
        /\ ~ev.raised => \A t \in DOMAIN ev.teams : Actives(ev.teams[t]) = 1
        /\ (\E t \in DOMAIN ev.teams : Actives(ev.teams[t]) # 1) => ev.raised
        /\ ev.raised => battle = <<>>

\* C21, the part the code keeps: a team without an active combatant makes the
\* construction fail, leaving no Battle object; a construction that succeeds
\* made a state with turn 0 whose teams each name one of their own active
\* combatants.
C21_NoActive ==
    ev.op = "Battle" =>
        /\ ev.raised = (\E t \in DOMAIN ev.teams : Actives(ev.teams[t]) = 0)
        /\ ev.raised => battle = <<>>
        /\ ~ev.raised =>
              /\ battle.state.turn_number = 0
              /\ DOMAIN battle.state.teams = DOMAIN ev.teams
              /\ \A t \in DOMAIN ev.teams :
                    \E i \in DOMAIN ev.teams[t] :
                       /\ ev.teams[t][i].is_active
                       /\ ev.teams[t][i].id = battle.state.teams[t].active_combatant_id

\* C27 (packet codec round trip): for a packet whose fields fit their
\* widths, the packed form is 12 header bytes, the fields big-endian in the
\* order protocol id, sequence, ack, ack bitfield, followed by the payload,
\* and unpack_packet gives back the same header fields and payload bytes;
\* unpack_packet raises an error for a buffer shorter than 12 bytes and for
\* no other.
C27_RoundTrip ==
    /\ ev.op = "pack_packet" =>
          /\ Len(ev.data) = 12 + Len(ev.payload)
          /\ \A i \in DOMAIN ev.data : ev.data[i] \in 0..255
          /\ ((ev.data[1] * 256 + ev.data[2]) * 256 + ev.data[3]) * 256 + ev.data[4]
                = ev.header.protocol_id
          /\ ((ev.data[5] * 256 + ev.data[6]) * 256 + ev.data[7]) * 256 + ev.data[8]
                = ev.header.sequence
          /\ ev.data[9] * 256 + ev.data[10] = ev.header.ack
          /\ ev.data[11] * 256 + ev.data[12] = ev.header.ack_bitfield
          /\ \A i \in DOMAIN ev.payload : ev.data[12 + i] = ev.payload[i]
          /\ ~ev.back.raised
          /\ ev.back.header = ev.header
          /\ ev.back.payload = ev.payload
    /\ ev.op = "unpack_packet" => (ev.back.raised <=> Len(ev.data) < 12)

\* a packet with the largest ack and bitfield, a sequence above 16 bits and a
\* payload went through both functions
C27_Witness ==
    /\ ev.op = "pack_packet"
    /\ ev.header = Header(PROTOCOL_ID, 65536, 65535, 65535)
    /\ ev.payload = <<255, 0, 7>>
    /\ ev.data = <<82, 79, 71, 85, 0, 1, 0, 0, 255, 255, 255, 255, 255, 0, 7>>
    /\ ev.back.payload = <<255, 0, 7>>

\* C28 (payload serializer round trip): for every dictionary built from
\* null, booleans, 32-bit integers, floats, strings, lists and nested
\* dictionaries under known and unknown keys, nested dictionaries at any
\* position, deserialize(serialize(d)) succeeds and equals d.
C28_Original ==
    ev.op = "serialize" => ~ev.back.raised /\ ev.back.value = ev.d

RECURSIVE HasDict(_)
\* a dictionary occurs in the value
HasDict(v) ==
    CASE v.type = "dict" -> TRUE
      [] v.type = "list" -> \E i \in DOMAIN v.value : HasDict(v.value[i])
      [] OTHER -> FALSE

RECURSIVE EndsStream(_)
\* every dictionary in the value is written last, nothing following it
EndsStream(v) ==
    CASE v.type = "dict" ->
            /\ \A i \in DOMAIN v.value : i < Len(v.value) => ~HasDict(v.value[i][2])
            /\ v.value # <<>> => EndsStream(v.value[Len(v.value)][2])
      [] v.type = "list" ->
            /\ \A i \in DOMAIN v.value : i < Len(v.value) => ~HasDict(v.value[i])
            /\ v.value # <<>> => EndsStream(v.value[Len(v.value)])
      [] OTHER -> TRUE

\* The round trip is the identity exactly for the dictionaries whose nested
\* dictionaries are followed by nothing; for the others deserialize raises.
C28_NestedLast ==
    ev.op = "serialize" =>
        /\ EndsStream(PyDict(ev.d)) => ~ev.back.raised /\ ev.back.value = ev.d
        /\ ~EndsStream(PyDict(ev.d)) => ev.back.raised

\* the dictionary of test_mixed_known_and_unknown_keys in small: a list of
\* two dictionaries under an unknown key
C28_TwoInList ==
    ~(/\ ev.op = "serialize"
      /\ ev.d = << <<"command", PyStr("pen")>>,
                   <<"a", PyList(<<PyDict(<< <<"a", None>> >>), PyDict(<<>>)>>)>> >>
      /\ ev.back.raised)

\* C30 (no false acknowledgement): a connection removes sequence s from its
\* unacked table only when the remote connection has read the application
\* packet with sequence s; in particular the packet of a peer that has read no
\* application packet does not make the other side drop its sequence 0.
C30_Original ==
    ev.op = "recv" =>
        ev.acked \subseteq got[IF ev.p = "A" THEN "B" ELSE "A"]

\* the keyword set that is claimed, each word with a token kind of its own
ClaimedKeywords ==
    KEYWORDS @@ (<<"v", "a", "r">> :> "VAR")
    @@ (<<"p", "r", "i", "n", "t">> :> "PRINT")

\* C29 (lexer keyword set): each of var, print, if, else, while, for, def,
\* return, True, False, nil, and, or, not is lexed as the keyword token of its
\* own kind, never as an identifier, and every other word as an identifier.
C29_Original ==
    (vm.phase = "tokens" /\ vm.text \in Words) =>
        /\ ~vm.raised
        /\ Len(vm.tokens) = 2
        /\ vm.tokens[1].value = vm.text
        /\ vm.tokens[1].type = IF vm.text \in DOMAIN ClaimedKeywords
                               THEN ClaimedKeywords[vm.text]
                               ELSE "IDENTIFIER"

\* The twelve words of KEYWORDS are lexed as keyword tokens; var and print, like
\* every other word, are lexed as identifiers.
C29_Twelve ==
    (vm.phase = "tokens" /\ vm.text \in Words) =>
        /\ ~vm.raised
        /\ Len(vm.tokens) = 2
        /\ vm.tokens[1].value = vm.text
        /\ vm.tokens[1].type = IF vm.text \in DOMAIN KEYWORDS
                               THEN KEYWORDS[vm.text]
                               ELSE "IDENTIFIER"
        /\ vm.tokens[2].type = "EOF"

\* the texts with a syntax error among those drawn: '1 +;', '1 + (2 / );'
SyntaxErrors ==
    {<<"1", " ", "+", ";">>,
     <<"1", " ", "+", " ", "(", "2", " ", "/", " ", ")", ";">>}

\* C22 (a parse with any error yields no program): for a token sequence with a
\* syntax error Parser.parse() returns None, neither a program nor an
\* exception.
C22_Original ==
    (vm.phase = "parsed" /\ vm.text \in SyntaxErrors) =>
        ~vm.program.raised /\ vm.program.value = None

\* Parser.parse() returns nothing at all: it raises AttributeError where the
\* first token of a declaration is not def, and TypeError elsewhere.
C22_Raises ==
    vm.phase = "parsed" =>
        /\ vm.program.raised
        /\ vm.program.exception \in {"AttributeError", "TypeError"}
        /\ vm.text \in SyntaxErrors => vm.program.exception = "AttributeError"

\* the run of a program of the family is over
Done(family) == vm.phase = "done" /\ vm.case.family = family

\* a run of the family has steps left to take
InTime(family) ==
    (vm.phase = "run" /\ vm.case.family = family) => Len(vm.trace) < MaxSteps

\* C23 (lexical scoping): a variable declared in a block shadows the variable
\* of the same name of an enclosing block, of the function's parameters or of
\* the globals until the block ends: what is read in the block is the inner
\* variable, with the value last assigned to it in the block, and after the
\* block the name is the outer variable again, its value unchanged.  The
\* blocks are those of one function or of the script.
C23_Shadowing ==
    /\ InTime("scope")
    /\ Done("scope") =>
          /\ vm.outcome = "ok"
          /\ vm.printed = <<IF vm.case.assign THEN vm.case.new ELSE vm.case.inner,
                            vm.case.outer>>
          /\ vm.value = IF vm.case.kind = "block" THEN PyStr("g") ELSE vm.case.outer
          /\ vm.case.kind # "function" =>
                Lookup(vm.globals, "a")
                    = IF vm.case.kind = "block" THEN PyStr("g") ELSE vm.case.outer

\* a block inside a block below a global, all three declaring a, the innermost
\* assigned to: the program has printed the new value and then the value of
\* the enclosing block, and returns the global
C23_Witness ==
    /\ Done("scope")
    /\ vm.case.kind = "block" /\ vm.case.assign
    /\ vm.case.outer = PyStr("global") /\ vm.case.inner = PyStr("local")
    /\ vm.case.new = PyStr("changed")
    /\ vm.printed = <<PyStr("changed"), PyStr("global")>>
    /\ vm.value = PyStr("g")

\* the compiler at the logical expression of the case
LogicCompiler(case) ==
    accept_all(IF case.form = "local" THEN begin_scope(Compiler("script"))
               ELSE Compiler("script"),
               LogicPrefix(case), 1)

\* where the code of the logical expression starts and where it has ended
LogicStart(case) == Len(LogicCompiler(case).code)
LogicEnd(case) == Len(accept(LogicCompiler(case), LogicalOf(case)).code)

\* the instructions of the right operand: they follow the left operand and the
\* jump and pop (and: 4 bytes, or: 7 bytes) and end the expression
RightCode(case) ==
    (Len(accept(LogicCompiler(case), Literal(case.left)).code)
        + (IF case.op = "AND" THEN 4 ELSE 7))
    .. (LogicEnd(case) - 1)

\* the right operand is skipped
Skipped(case) ==
    IF case.op = "AND" THEN is_falsy(case.left) ELSE ~is_falsy(case.left)

\* C24 (short-circuit evaluation): 'a and b' is a without any instruction of b
\* executed when a is falsy, else b; 'a or b' is a without any instruction of
\* b executed when a is truthy, else b; the expression leaves exactly one
\* value on the stack.
C24_ShortCircuit ==
    /\ InTime("logic")
    /\ Done("logic") =>
          LET case == vm.case
              result == IF Skipped(case) THEN case.left ELSE case.right
              x == IF Skipped(case) THEN None ELSE case.right
              script == {i \in DOMAIN vm.trace : vm.trace[i].fn = "<script>"}
          IN /\ vm.outcome = "ok"
             /\ CASE case.form = "last" -> vm.value = result /\ vm.printed = <<>>
                  [] case.form = "print" -> vm.printed = <<result>> /\ vm.value = x
                  [] case.form = "local" -> vm.printed = <<result, x>> /\ vm.value = None
             /\ Skipped(case) <=>
                   \A i \in script : vm.trace[i].ip \notin RightCode(case)
             /\ \E i, j \in script :
                   /\ vm.trace[i].ip = LogicStart(case)
                   /\ vm.trace[j].ip = LogicEnd(case)
             /\ \A i, j \in script :
                   (vm.trace[i].ip = LogicStart(case) /\ vm.trace[j].ip = LogicEnd(case))
                       => vm.trace[j].height = vm.trace[i].height + 1

\* 'nil or (x = "s")' among locals has run: the right operand was evaluated,
\* and 'nil and ...' has run without it
C24_Witness ==
    /\ Done("logic")
    /\ vm.case.form = "local" /\ vm.case.left = None /\ vm.case.right = PyStr("s")
    /\ \/ vm.case.op = "OR" /\ vm.printed = <<PyStr("s"), PyStr("s")>>
       \/ vm.case.op = "AND" /\ vm.printed = <<None, None>>

\* C25 (recursion): a function defined with def at global scope, in a block or
\* in another function's body calls itself through its name.
C25_Original ==
    /\ InTime("recursion")
    /\ Done("recursion") =>
          /\ vm.outcome = "ok"
          /\ IF vm.case.where = "block"
             THEN vm.printed = <<PyInt(vm.case.depth)>>
             ELSE vm.value = PyInt(vm.case.depth)

\* A function bound as a global calls itself; one bound as a local (defined in
\* a block or in a function body) runs as long as it does not call itself, and
\* the call of its own name fails as an undefined variable.
C25_GlobalOnly ==
    /\ InTime("recursion")
    /\ Done("recursion") =>
          IF vm.case.where = "global"
          THEN vm.outcome = "ok" /\ vm.value = PyInt(vm.case.depth)
          ELSE IF vm.case.depth = 0
          THEN /\ vm.outcome = "ok"
               /\ IF vm.case.where = "block" THEN vm.printed = <<PyInt(0)>>
                  ELSE vm.value = PyInt(0)
          ELSE vm.outcome = "runtime-error"

\* the width of the instruction with opcode op: the opcode and its operands
Width(op) ==
    IF op \in {OP_JUMP, OP_JUMP_IF_FALSE, OP_LOOP} THEN 3
    ELSE IF op \in {OP_PUSH_CONST, OP_DEFINE_GLOBAL, OP_GET_GLOBAL, OP_SET_GLOBAL,
                    OP_GET_LOCAL, OP_SET_LOCAL, OP_CALL} THEN 2
    ELSE 1

\* the ips of the return instructions of the code from ip on
RECURSIVE Returns(_, _)
Returns(code, ip) ==
    IF ip >= Len(code) THEN {}
    ELSE (IF code[ip + 1] = OP_RETURN THEN {ip} ELSE {})
         \cup Returns(code, ip + Width(code[ip + 1]))

\* the value of the statements' last one when it is the expression statement
\* of a literal, else nil
LastValue(statements) ==
    IF statements = <<>> THEN None
    ELSE LET last == statements[Len(statements)]
         IN IF last.node = "ExpressionStmt" /\ last.expression.node = "Literal"
            THEN last.expression.value
            ELSE None

\* C26 (implicit script return): a script whose last statement is an
\* expression statement returns that expression's value, any other script,
\* the empty one too, returns nil; the script's chunk has one return
\* instruction, its last byte, and every run ends by executing it.
C26_ImplicitReturn ==
    /\ InTime("return")
    /\ Done("return") =>
          LET code == vm.function.chunk.code
          IN /\ vm.outcome = "ok"
             /\ vm.value = LastValue(vm.program.statements)
             /\ Returns(code, 0) = {Len(code) - 1}
             /\ vm.trace[Len(vm.trace)].fn = "<script>"
             /\ vm.trace[Len(vm.trace)].ip = Len(code) - 1
             /\ \A i \in 1..(Len(vm.trace) - 1) :
                   vm.trace[i].fn = "<script>" => vm.trace[i].ip # Len(code) - 1

\* '7; "v";' has returned "v"
C26_Witness ==
    /\ Done("return")
    /\ vm.case.before
    /\ vm.case.last = "expression" /\ vm.case.value = PyStr("v")
    /\ vm.value = PyStr("v")

\* the script ending in a loop that ran twice has returned nil
C26_WitnessNil ==
    /\ Done("return")
    /\ vm.case.before
    /\ vm.case.last = "while" /\ vm.case.loops = 2 /\ vm.value = None
    /\ Lookup(vm.globals, "i") = PyInt(2)

\* C40 (sequence order on a half window): no sequence number is greater than
\* itself, and of two different sequence numbers of 0..65535 exactly one is
\* greater than the other, those 32768 apart included.
C40_ExactlyOne ==
    ev.op = "is_sequence_greater" =>
        /\ ev.s1 = ev.s2 => ~ev.ret
        /\ \A s \in 0..(SEQ_MOD - 1) :
              IF s = ev.s1 THEN ~is_sequence_greater(s, s)
              ELSE /\ is_sequence_greater(ev.s1, s) # is_sequence_greater(s, ev.s1)
                   /\ s = ev.s2 => ev.ret = is_sequence_greater(ev.s1, s)

\* 32768 and 0, half the range apart, have been compared: 32768 is the greater
C40_Witness ==
    /\ ev.op = "is_sequence_greater"
    /\ ev.s1 = 32768 /\ ev.s2 = 0 /\ ev.ret
    /\ ~is_sequence_greater(0, 32768)

\* C34 (turn fan-out order): submit_actions drops the users with an empty
\* list, orders the others by the priority of their first action, descending,
\* users of equal first priority in the order of iteration of the map, and
\* appends to the back of the queue one ACTION_REQUEST event with payload
\* {user_id, action} per action, the actions of one user next to each other in
\* the order of the list; it calls no handler and processes no event.
C34_FanOut ==
    [][\A b \in Battles :
          Doing("submit_actions", b) =>
             LET new == NewEvents(b)
                 m == Submitted(b)
                 valid == {k \in DOMAIN m : m[k][2] # <<>>}
                 First(k) == m[k][2][1].priority
                 Ahead(k) == {j \in valid : \/ First(j) > First(k)
                                            \/ First(j) = First(k) /\ j < k}
                 Place(k, n) ==
                     Cardinality({<<j, i>> \in valid \X (1..8) :
                                     j \in Ahead(k) /\ i <= Len(m[j][2])}) + n
             IN /\ \A k \in valid : Len(m[k][2]) <= 8
                /\ Len(new) = Cardinality({<<j, i>> \in valid \X (1..8) :
                                             i <= Len(m[j][2])})
                /\ \A k \in valid : \A n \in DOMAIN m[k][2] :
                      /\ new[Place(k, n)].event_type = "ACTION_REQUEST"
                      /\ new[Place(k, n)].payload
                           = [user_id |-> m[k][1], action |-> m[k][2][n]]
                /\ SubSeq(battle'[b].queue, 1, Len(battle[b].queue)) = battle[b].queue
                /\ battle'[b].trace = battle[b].trace
                /\ battle'[b].event_log = battle[b].event_log
                /\ battle'[b].logs = battle[b].logs
                /\ battle'[b].hp = battle[b].hp
                /\ battle'[b].turn_number = battle[b].turn_number
                /\ battle'[b].todo = battle[b].todo
                /\ battle'[b].pc = battle[b].pc]_vars

\* {p1: [Tackle, Terastallize], p2: [Quick Attack]} was submitted to an empty
\* queue: Quick Attack (priority 1) is ahead of Tackle (0), which Terastallize
\* (100) follows
C34_Witness ==
    /\ ev.op = "submit_actions"
    /\ battle[ev.p].trace = <<>>
    /\ [i \in DOMAIN battle[ev.p].queue |-> battle[ev.p].queue[i].payload]
         = <<[user_id |-> "p2", action |-> QuickAttack],
             [user_id |-> "p1", action |-> Tackle],
             [user_id |-> "p1", action |-> Terastallize]>>

\* the dequeues among the steps of a battle, and the dequeue of an event
PopSteps(B) == {i \in DOMAIN B.trace : B.trace[i].op = "popleft"}

PopStep(B, id) == CHOOSE i \in PopSteps(B) : B.trace[i].id = id

\* the log is n ACTION_REQUEST events in the order they were submitted and
\* then the DAMAGE events their handlers appended, in the same order
RequestsThenDamage(B, log) ==
    LET n == Len(log) \div 2
    IN /\ Len(log) = 2 * n
       /\ \A i \in 1..n :
             /\ log[i].event_type = "ACTION_REQUEST"
             /\ B.born[log[i].id].parent = 0
             /\ \A j \in 1..n : i < j => log[i].id < log[j].id
             /\ log[n + i].event_type = "DAMAGE"
             /\ B.born[log[n + i].id].parent = log[i].id
             /\ Cardinality({k \in DOMAIN B.trace :
                               /\ B.trace[k].op = "handler"
                               /\ B.trace[k].id = log[n + i].id}) = 1

\* C35 (back-enqueued events are processed breadth-first): an event that a
\* handler adds at the back is dequeued after every event that was waiting in
\* the queue when it was added; so the log of a turn in which every
\* ACTION_REQUEST handler appended one DAMAGE event is the n ACTION_REQUEST
\* events in the order they were submitted, then the n DAMAGE events in the
\* same order, 2n events, each DAMAGE handled exactly once.
C35_BreadthFirst ==
    \A b \in Battles :
       LET B == battle[b]
       IN /\ \A i \in PopSteps(B) :
                LET e == B.born[B.trace[i].id]
                IN (e.parent # 0 /\ ~e.to_front) =>
                      \A w \in B.trace[PopStep(B, e.parent)].waiting :
                         \E j \in PopSteps(B) : j < i /\ B.trace[j].id = w
          /\ (B.ruleset = "MockRuleset" /\ ev.op = "return" /\ ev.p = b) =>
                LET log == B.logs[Len(B.logs)]
                IN (\A i \in DOMAIN log :
                       log[i].event_type = "ACTION_REQUEST"
                           => log[i].payload.action.kind = "MockAction")
                      => RequestsThenDamage(B, log)

\* a turn of the mock ruleset with one action of each player has returned: two
\* requests, then two damages, ten hit points lost on each side
C35_Witness ==
    /\ ev.op = "return" /\ ev.p = "b1"
    /\ battle["b1"].ruleset = "MockRuleset"
    /\ LET log == battle["b1"].logs[Len(battle["b1"].logs)]
       IN /\ [i \in DOMAIN log |-> log[i].event_type]
               = <<"ACTION_REQUEST", "ACTION_REQUEST", "DAMAGE", "DAMAGE">>
          /\ log[3].payload.target_id = "p2" /\ log[4].payload.target_id = "p1"
    /\ battle["b1"].hp = [p1 |-> FullHp - 10, p2 |-> FullHp - 10]

\* C31 (fresh session on re-adoption): when a connection becomes CONNECTED
\* by adopting a handshake challenge, after an idle timeout too, the dedup
\* window, the ack bitfield and the unacked table are empty, so that nothing
\* of the previous session is taken for a duplicate, retransmitted or
\* acknowledged.
C31_Original ==
    [][\A p \in Peers :
          (conn[p].state = "DISCONNECTED" /\ conn'[p].state = "CONNECTED") =>
             /\ conn'[p].received_sequences = <<>>
             /\ conn'[p].ack_bitfield = 0
             /\ conn'[p].sent_packets = <<>>]_vars

\* C33 (atomic packet processing): an accepted application packet with a
\* payload is either processed completely, its payload enqueued, its sequence
\* recorded in the dedup window and the latest remote sequence and the ack
\* bitfield updated, or, when processing fails, leaves the dedup window, the
\* latest remote sequence, the ack bitfield and the payload queue as they
\* were; a recorded sequence always has its payload enqueued.
C33_Original ==
    [][\A p \in Peers :
          (ReadsData(p) /\ Len(ev'.data) > HEADER_SIZE) =>
             LET c == conn[p]
                 d == conn'[p]
                 seq == FromBE(SubSeq(ev'.data, 5, 8))
             IN \/ /\ Len(d.received_payloads) = Len(c.received_payloads) + 1
                   /\ ~InSeq(seq, c.received_sequences)
                   /\ InSeq(seq, d.received_sequences)
                \/ /\ d.received_payloads = c.received_payloads
                   /\ d.received_sequences = c.received_sequences
                   /\ d.remote_sequence_number = c.remote_sequence_number
                   /\ d.ack_bitfield = c.ack_bitfield]_vars

\* C32 (idempotent re-handshake): a handshake challenge read by a connection
\* that is CONNECTED or CONNECTING makes it send exactly one handshake
\* response, to the challenge's sender, and leaves its state, remote address,
\* sequence counters, ack bitfield, unacked table, dedup window and payload
\* queue (and every other field) unchanged.
C32_ReHandshake ==
    [][\A p \in Peers :
          (/\ Doing("recv", p)
           /\ ev'.data = HANDSHAKE_CHALLENGE
           /\ conn[p].state \in {"CONNECTED", "CONNECTING"}) =>
             /\ out' = <<Dgram(ev'.addr, HANDSHAKE_RESPONSE)>>
             /\ conn'[p] = conn[p]]_vars

\* A, connected to X with a packet unacked, has read a challenge of Y and
\* answered Y, still connected to X
C32_Witness ==
    /\ ev.op = "recv" /\ ev.data = HANDSHAKE_CHALLENGE /\ ev.addr = "Y"
    /\ ev.st = "CONNECTED" /\ conn["A"].state = "CONNECTED"
    /\ conn["A"].remote_address = "X"
    /\ conn["A"].sent_packets # <<>>
    /\ out = <<Dgram("Y", HANDSHAKE_RESPONSE)>>

\* A, waiting for X's response, has read a challenge of Y and answered Y,
\* still waiting for X
C32_WitnessConnecting ==
    /\ ev.op = "recv" /\ ev.data = HANDSHAKE_CHALLENGE /\ ev.addr = "Y"
    /\ ev.st = "CONNECTING" /\ conn["A"].state = "CONNECTING"
    /\ conn["A"].remote_address = "X"
    /\ out = <<Dgram("Y", HANDSHAKE_RESPONSE)>>

\* C36 (parser error recovery terminates): on a parse error the parser
\* synchronizes and resumes, so that for every token sequence that ends in
\* EOF, those with syntax errors included, parse() comes to its end and
\* returns instead of raising.
C36_Original ==
    vm.phase = "parsed" => ~vm.program.raised

\* C39 (duplicate local detection): a var, def or parameter whose name is
\* that of another local of the same scope of the same function makes the
\* compilation fail; the name of a local of an enclosing or of an earlier
\* scope, of a local of another function, or of a global is accepted, the
\* inner declaration shadowing the outer one and a global declared again
\* taking the new value.
C39_Duplicates ==
    /\ InTime("duplicate")
    /\ (vm.phase = "run" /\ vm.case.family = "duplicate") => vm.case.kind \in Shadowings
    /\ Done("duplicate") =>
          IF vm.case.kind \in Redeclarations
          THEN vm.outcome = "compile-error" /\ vm.trace = <<>>
          ELSE vm.outcome = "ok" /\ vm.printed = <<PyInt(2), PyInt(1)>>

\* def f(a, a) { } was refused by the compiler
C39_Witness ==
    /\ Done("duplicate")
    /\ vm.case.kind = "param_param"
    /\ vm.outcome = "compile-error"

\* { var a = 1; { var a = 2; print a; } print a; } has printed 2 and 1
C39_WitnessShadowing ==
    /\ Done("duplicate")
    /\ vm.case.kind = "enclosing"
    /\ vm.outcome = "ok" /\ vm.printed = <<PyInt(2), PyInt(1)>>

\* the compiler at the statement of the case, and after it
FlowCompiler(case) ==
    CASE case.where = "global" -> accept(Compiler("script"), Var("l", 0))
      [] case.where = "block" ->
            accept_all(begin_scope(Compiler("script")), <<Var("k", 7), Var("l", 0)>>, 1)
      [] case.where = "function" -> add_local(begin_scope(Compiler("function")), "l")

FlowCompiled(case) == accept(FlowCompiler(case), FlowStatement(case))

\* the function the statement of the case is in
FlowFunction(case) == IF case.where = "function" THEN "f" ELSE "<script>"

\* the steps of the run at which the instruction at ip of the function began
StepsAt(fn, ip) ==
    {i \in DOMAIN vm.trace : vm.trace[i].fn = fn /\ vm.trace[i].ip = ip}

\* the ips of the jump-if-false of the statement of the case, of the pop
\* behind it and of the pop at its target
ConditionPops(case) ==
    LET c0 == FlowCompiler(case)
        S == FlowStatement(case)
        jump == Len(accept(c0, S.condition).code)
        taken == accept(emit_byte(emit_jump(accept(c0, S.condition), OP_JUMP_IF_FALSE),
                                  OP_POP),
                        IF S.node = "IfStmt" THEN S.then_branch ELSE S.body)
    IN [jump |-> jump, taken |-> jump + 3, other |-> Len(taken.code) + 3]

\* the blocks of the statement of the case
FlowBlocks(case) ==
    LET S == FlowStatement(case)
        parts == IF S.node = "IfStmt" THEN {S.then_branch, S.else_branch}
                 ELSE IF S.body.node = "IfStmt"
                 THEN {S.body.then_branch, S.body.else_branch}
                 ELSE {S.body}
    IN {B \in parts : B # Absent /\ B.node = "BlockStmt"}

\* what the program of the case prints
FlowPrinted(case) ==
    CASE case.kind = "if" ->
            IF is_falsy(case.cond) THEN <<PyInt(0)>> ELSE <<PyInt(1), PyInt(0)>>
      [] case.kind = "if_else" ->
            IF is_falsy(case.cond) THEN <<PyInt(3), PyInt(0)>> ELSE <<PyInt(1), PyInt(0)>>
      [] case.kind = "while" -> <<PyInt(case.loops)>>
      [] case.kind = "while_if" ->
            IF is_falsy(case.cond) THEN <<PyInt(2 * ((case.loops + 1) \div 2))>>
            ELSE <<PyInt(case.loops)>>

\* C37 (control-flow stack balance): in the code of an if statement, with or
\* without else, and of a while statement, every execution of the
\* jump-if-false is followed by exactly one pop of the condition, the one
\* behind the jump when the condition is truthy and the one at its target
\* when it is falsy, so the stack is as high after the statement as before it
\* on every path; and the compiler has as many locals after a block as before
\* it, having emitted one pop per local of the block.
C37_StackBalance ==
    /\ InTime("flow")
    /\ Done("flow") =>
          LET case == vm.case
              c0 == FlowCompiler(case)
              c1 == FlowCompiled(case)
              fn == FlowFunction(case)
              pops == ConditionPops(case)
              bounds == StepsAt(fn, Len(c0.code)) \cup StepsAt(fn, Len(c1.code))
          IN /\ vm.outcome = "ok"
             /\ vm.printed = FlowPrinted(case)
             /\ StepsAt(fn, Len(c0.code)) # {} /\ StepsAt(fn, Len(c1.code)) # {}
             /\ \A i \in bounds : vm.trace[i].height = Len(c0.locals)
             /\ \A i \in StepsAt(fn, pops.jump) :
                   /\ vm.trace[i + 1].ip \in {pops.taken, pops.other}
                   /\ vm.trace[i + 1].height = vm.trace[i].height
                   /\ vm.trace[i + 2].height = vm.trace[i].height - 1
             /\ Cardinality(StepsAt(fn, pops.taken)) + Cardinality(StepsAt(fn, pops.other))
                   = Cardinality(StepsAt(fn, pops.jump))
             /\ case.kind \in {"if", "if_else"} =>
                   /\ Cardinality(StepsAt(fn, pops.jump)) = 1
                   /\ Cardinality(StepsAt(fn, pops.other))
                         = IF is_falsy(case.cond) THEN 1 ELSE 0
             /\ case.kind = "while" =>
                   /\ Cardinality(StepsAt(fn, pops.taken)) = case.loops
                   /\ Cardinality(StepsAt(fn, pops.other)) = 1
             /\ c1.locals = c0.locals /\ c1.scope_depth = c0.scope_depth
             /\ \A B \in FlowBlocks(case) :
                   LET inner == accept_all(begin_scope(c0), B.statements, 1)
                       outer == accept(c0, B)
                       k == Cardinality({n \in DOMAIN B.statements :
                                           B.statements[n].node = "VarDeclStmt"})
                   IN /\ Len(inner.locals) = Len(c0.locals) + k
                      /\ outer.locals = c0.locals
                      /\ outer.scope_depth = c0.scope_depth
                      /\ outer.code = inner.code \o [j \in 1..k |-> OP_POP]

\* 'if (nil) {...} else {...}' among the locals of a block took the else
\* branch
C37_Witness ==
    /\ Done("flow")
    /\ vm.outcome = "ok"
    /\ vm.case.kind = "if_else" /\ vm.case.where = "block" /\ vm.case.cond = None
    /\ vm.printed = <<PyInt(3), PyInt(0)>>
    /\ StepsAt("<script>", ConditionPops(vm.case).other) # {}
    /\ StepsAt("<script>", ConditionPops(vm.case).taken) = {}

\* a loop in a function went round twice
C37_WitnessLoop ==
    /\ Done("flow")
    /\ vm.outcome = "ok"
    /\ vm.case.kind = "while" /\ vm.case.where = "function" /\ vm.case.loops = 2
    /\ vm.printed = <<PyInt(2)>>
    /\ Cardinality(StepsAt("f", ConditionPops(vm.case).taken)) = 2

\* the ips at which the instructions of the code from ip on start
RECURSIVE Starts(_, _)
Starts(code, ip) ==
    IF ip >= Len(code) THEN {}
    ELSE {ip} \cup Starts(code, ip + Width(code[ip + 1]))

\* the chunk of the function and those of the functions among its constants
RECURSIVE Chunks(_)
Chunks(function) ==
    {function.chunk}
        \cup UNION {Chunks(function.chunk.constants[i]) :
                      i \in {j \in DOMAIN function.chunk.constants :
                               function.chunk.constants[j].type = "function"}}

\* the 16-bit big-endian operand of the jump at ip, and where the jump goes
Operand(code, ip) == code[ip + 2] * 256 + code[ip + 3]

Target(code, ip) ==
    IF code[ip + 1] = OP_LOOP THEN ip + 3 - Operand(code, ip)
    ELSE ip + 3 + Operand(code, ip)

\* the jumps of an if or while statement compiled by c0, with the targets
\* meant: the jump-if-false goes to the pop of the other path, the jump of an
\* if to the end of the statement, the loop to the start of the condition
Jumps(c0, S) ==
    LET jump == Len(accept(c0, S.condition).code)
        taken == accept(emit_byte(emit_jump(accept(c0, S.condition), OP_JUMP_IF_FALSE),
                                  OP_POP),
                        IF S.node = "IfStmt" THEN S.then_branch ELSE S.body)
        end == Len(accept(c0, S).code)
    IN IF S.node = "IfStmt"
       THEN {[ip |-> jump, op |-> OP_JUMP_IF_FALSE, target |-> Len(taken.code) + 3],
             [ip |-> Len(taken.code), op |-> OP_JUMP, target |-> end]}
       ELSE {[ip |-> jump, op |-> OP_JUMP_IF_FALSE, target |-> end - 1],
             [ip |-> Len(taken.code), op |-> OP_LOOP, target |-> Len(c0.code)]}

\* the jumps of the statement of the case, those of the if in a while included
FlowJumps(case) ==
    LET c0 == FlowCompiler(case)
        S == FlowStatement(case)
    IN Jumps(c0, S)
          \cup IF case.kind = "while_if"
               THEN Jumps(emit_byte(emit_jump(accept(c0, S.condition), OP_JUMP_IF_FALSE),
                                    OP_POP), S.body)
               ELSE {}

\* the code the statement of the case is in
FlowCode(case) ==
    IF case.where = "function"
    THEN (CHOOSE chunk \in Chunks(vm.function) \ {vm.function.chunk} : TRUE).code
    ELSE vm.function.chunk.code

\* the long jump of the program of the case: its ip, its instruction, its
\* target counted from the end of the code, and the instruction there
LongJump(case, code) ==
    CASE case.kind = "then" ->
            [ip |-> 1, op |-> OP_JUMP_IF_FALSE, target |-> Len(code) - 3, at |-> OP_POP]
      [] case.kind = "else" ->
            [ip |-> 7, op |-> OP_JUMP, target |-> Len(code) - 2, at |-> OP_NIL]
      [] case.kind = "while" ->
            [ip |-> Len(code) - 6, op |-> OP_LOOP, target |-> 0, at |-> OP_FALSE]

\* C38 (jump patching): in every chunk of a compiled program the operand of
\* each jump and jump-if-false, two bytes with the high one first, added to
\* the address behind the operand gives the instruction meant, inside the
\* chunk, the operand of each loop subtracted from the address behind it
\* gives the start of the loop's condition, and no operand is a placeholder
\* left unpatched; a jump of more than 65535 bytes, forward or backward, is
\* a compile error.
C38_JumpPatching ==
    /\ InTime("jump")
    /\ (vm.phase \in {"run", "done"} /\ vm.outcome # "compile-error"
            /\ vm.case.family # "jump") =>
          \A chunk \in Chunks(vm.function) :
             LET starts == Starts(chunk.code, 0)
             IN \A ip \in starts :
                   chunk.code[ip + 1] \in {OP_JUMP, OP_JUMP_IF_FALSE, OP_LOOP} =>
                      Target(chunk.code, ip) \in starts
    /\ (vm.phase \in {"run", "done"} /\ vm.case.family = "flow") =>
          LET code == FlowCode(vm.case)
              jumps == FlowJumps(vm.case)
              from == Len(FlowCompiler(vm.case).code)
              to == Len(FlowCompiled(vm.case).code)
          IN /\ vm.outcome # "compile-error"
             /\ SubSeq(code, 1, to) = FlowCompiled(vm.case).code
             /\ \A j \in jumps :
                   /\ code[j.ip + 1] = j.op
                   /\ Target(code, j.ip) = j.target
                   /\ j.op = OP_JUMP_IF_FALSE => code[j.target + 1] = OP_POP
             /\ \A ip \in Starts(code, 0) :
                   (ip >= from /\ ip < to
                       /\ code[ip + 1] \in {OP_JUMP, OP_JUMP_IF_FALSE, OP_LOOP}) =>
                      \E j \in jumps : j.ip = ip
    /\ (vm.phase \in {"run", "done"} /\ vm.case.family = "jump") =>
          IF vm.case.jump > JUMP_MAX
          THEN vm.outcome = "compile-error" /\ vm.trace = <<>>
          ELSE LET code == vm.function.chunk.code
                   long == LongJump(vm.case, code)
               IN /\ vm.outcome # "compile-error"
                  /\ code[long.ip + 1] = long.op
                  /\ Operand(code, long.ip) = vm.case.jump
                  /\ <<code[long.ip + 2], code[long.ip + 3]>>
                        = <<vm.case.jump \div 256, vm.case.jump % 256>>
                  /\ Target(code, long.ip) = long.target
                  /\ code[long.target + 1] = long.at
                  /\ vm.phase = "done" =>
                        /\ vm.outcome = "ok"
                        /\ vm.case.kind # "while" =>
                              \E i \in DOMAIN vm.trace :
                                 /\ vm.trace[i].ip = long.ip
                                 /\ vm.trace[i + 1].ip = long.target

\* 'if (false) E;' with 65530 bytes of E has been compiled and run: the
\* jump-if-false went over 65535 bytes
C38_Witness ==
    /\ Done("jump")
    /\ vm.case.kind = "then" /\ vm.case.jump = JUMP_MAX
    /\ vm.outcome = "ok"
    /\ Operand(vm.function.chunk.code, 1) = JUMP_MAX
    /\ \E i \in DOMAIN vm.trace : vm.trace[i].ip = 1 /\ vm.trace[i + 1].ip = JUMP_MAX + 4

\* 'while (false) E;' whose loop would go back 65536 bytes is a compile error
C38_WitnessTooLarge ==
    /\ Done("jump")
    /\ vm.case.kind = "while" /\ vm.case.jump = JUMP_MAX + 1
    /\ vm.outcome = "compile-error"

\* a while with an if in it, in a function, has been compiled
C38_WitnessLoop ==
    /\ Done("flow")
    /\ vm.case.kind = "while_if" /\ vm.case.where = "function"
    /\ vm.outcome = "ok"
    /\ Cardinality(FlowJumps(vm.case)) = 4

====
